---- MODULE Spec2Model ----
(***************************************************************************)
(* A model of microps-rs: the checksum primitive, the IPv4 address text    *)
(* form, the device layer, the protocol dispatch table, the interface      *)
(* registry and the IP / ICMP input and output pipelines.                  *)
(*                                                                         *)
(* Bytes are naturals 0..255; a buffer (&[u8]) is a sequence of bytes.     *)
(* A text (&str, String) is a sequence of one-character strings.           *)
(* An IpAddr is the sequence of the four bytes its u32 holds in memory     *)
(* (IpAddr::from_ne_bytes / to_ne_bytes), which is the order of the        *)
(* dotted-quad octets on every host.  A u16 header field is modelled by    *)
(* the two bytes it holds in memory after hton16, first byte first.        *)
(* A call returns a record of its result and of the calls it made on the   *)
(* way down (transmit, dispatch, icmp::input, registry lookups); `last`    *)
(* holds the record of the last call.                                      *)
(*                                                                         *)
(* Specifications: Spec (device layer and dispatch), SpecIp (interfaces    *)
(* and ip_output over two devices), SpecIface (interface attachment),      *)
(* SpecRegistry (the interface registry), SpecProtocol (the protocol       *)
(* table), SpecIpId (the identification counter, one caller),              *)
(* SpecIpIdThreads (the counter under concurrent callers; `last` holds     *)
(* each thread's position and the value it got), SpecFrame (setup and      *)
(* running operations interleaved), SpecApp (the application of main.rs    *)
(* with the borrow state of its RefCells), and SpecIpInput, SpecIpOutput,  *)
(* SpecIpLink, SpecIpOrder, SpecLoopback, SpecMatch, SpecIcmpHdr,          *)
(* SpecCksum and SpecAddr (one call of the function on drawn arguments).   *)
(***************************************************************************)
EXTENDS Naturals, Sequences, FiniteSets, TLC

VARIABLES
    devices,    \* DeviceManager.devices: Vec<Device>
    protocols,  \* ProtocolManager.protocols: Vec<Protocol>
    ip_ifaces,  \* ProtocolContexts.ip_ifaces.ifaces: Vec<IpIface>
    next_id,    \* ProtocolContexts.ip_id.next_id: AtomicU16
    inp,        \* the input of a pure-function specification
    last        \* the last call made: its arguments and everything it did

vars == <<devices, protocols, ip_ifaces, next_id, inp, last>>

(***************************************************************************)
(* Bounds of the model.                                                    *)
(***************************************************************************)
MaxBufLen == 4

MaxDevices == 2

MaxIfaces == 2

\* The MTU of the small devices handed to DeviceManager::register.
SmallMtu == 28

(***************************************************************************)
(* Sequence helpers.                                                       *)
(***************************************************************************)
\* &s[from..to]: the elements at the 0-based positions from .. to - 1.
Slice(s, from, to) == SubSeq(s, from + 1, to)

Replace(s, pos, b) == [s EXCEPT ![pos] = b]

RECURSIVE SeqsUpTo(_, _)
SeqsUpTo(S, n) ==
    IF n = 0 THEN {<<>>}
    ELSE LET shorter == SeqsUpTo(S, n - 1)
         IN  shorter \cup {Append(s, x) : s \in {t \in shorter : Len(t) = n - 1}, x \in S}

(***************************************************************************)
(* util.rs: byte order and the Internet checksum.                          *)
(***************************************************************************)
\* h.to_be(): the two bytes the result holds in memory.
hton16(h) == <<h \div 256, h % 256>>

\* u16::from_be(n), n given by the two bytes it holds in memory.
ntoh16(n) == n[1] * 256 + n[2]

\* The loop over chunks_exact(2) and the odd trailing byte, from 1-based index i.
RECURSIVE SumWords(_, _)
SumWords(data, i) ==
    IF i + 1 <= Len(data) THEN data[i] * 256 + data[i + 1] + SumWords(data, i + 2)
    ELSE IF i = Len(data) THEN data[i] * 256
    ELSE 0

\* A plausible slip: the words read little-endian (u16::from_le_bytes).
RECURSIVE SumWordsLittleEndian(_, _)
SumWordsLittleEndian(data, i) ==
    IF i + 1 <= Len(data)
    THEN data[i] + data[i + 1] * 256 + SumWordsLittleEndian(data, i + 2)
    ELSE IF i = Len(data) THEN data[i] * 256
    ELSE 0

\* A plausible slip: the odd trailing byte is forgotten.
RECURSIVE SumWordsNoOddByte(_, _)
SumWordsNoOddByte(data, i) ==
    IF i + 1 <= Len(data)
    THEN data[i] * 256 + data[i + 1] + SumWordsNoOddByte(data, i + 2)
    ELSE 0

\* while sum >> 16 != 0 { sum = (sum & 0xffff) + (sum >> 16) }
RECURSIVE Fold(_)
Fold(sum) ==
    IF sum \div 65536 # 0 THEN Fold((sum % 65536) + (sum \div 65536)) ELSE sum

cksum16_le(data, init) ==
    65535 - (Fold(init + SumWordsLittleEndian(data, 1)) % 65536)

cksum16_no_odd(data, init) ==
    65535 - (Fold(init + SumWordsNoOddByte(data, 1)) % 65536)

\* u32 accumulator, folded, then !(sum as u16).  With init 0 the accumulator of a
\* buffer of at most 65535 bytes stays below 2^31, so the u32 never wraps.
cksum16(data, init) ==
    65535 - (Fold(init + SumWords(data, 1)) % 65536)

\* The checksum field at the 0-based offset off is zeroed, cksum16 of the buffer
\* is computed, and its high byte then its low byte are stored in the field.
fill_checksum(buf, off) ==
    LET zeroed == [buf EXCEPT ![off + 1] = 0, ![off + 2] = 0]
        checksum == cksum16(zeroed, 0)
    IN  [zeroed EXCEPT ![off + 1] = checksum \div 256, ![off + 2] = checksum % 256]

(***************************************************************************)
(* Result<T>: Ok(v) or an error named after the condition it reports.      *)
(***************************************************************************)
Ok(v) == [ok |-> TRUE, v |-> v]

Err(e) == [ok |-> FALSE, err |-> e]

\* Option<T>
None == [ok |-> FALSE, err |-> "None"]

Some(v) == [ok |-> TRUE, v |-> v]

(***************************************************************************)
(* protocol/ip.rs: IpAddr and its text form.                               *)
(***************************************************************************)
Digits == <<"0", "1", "2", "3", "4", "5", "6", "7", "8", "9">>

IsDigit(c) == \E d \in 1..10 : Digits[d] = c

DigitVal(c) == (CHOOSE d \in 1..10 : Digits[d] = c) - 1

\* str::split(sep): the parts between the separators, empty parts kept.
RECURSIVE split(_, _)
split(s, sep) ==
    IF \A k \in 1..Len(s) : s[k] # sep THEN <<s>>
    ELSE LET k == CHOOSE j \in 1..Len(s) : s[j] = sep /\ \A m \in 1..(j - 1) : s[m] # sep
         IN  <<Slice(s, 0, k - 1)>> \o split(Slice(s, k, Len(s)), sep)

RECURSIVE DecimalValue(_)
DecimalValue(ds) ==
    IF Len(ds) = 0 THEN 0
    ELSE DecimalValue(Slice(ds, 0, Len(ds) - 1)) * 10 + DigitVal(ds[Len(ds)])

\* part.parse::<u8>(): an optional leading '+', then one or more decimal digits
\* (leading zeros allowed) whose value fits in a u8.
parse_u8(part) ==
    LET ds == IF Len(part) > 0 /\ part[1] = "+" THEN Tail(part) ELSE part
    IN  IF Len(ds) = 0 \/ \E k \in 1..Len(ds) : ~IsDigit(ds[k]) THEN Err("InvalidOctet")
        ELSE IF DecimalValue(ds) > 255 THEN Err("InvalidOctet")
        ELSE Ok(DecimalValue(ds))

IpAddr_ANY == <<0, 0, 0, 0>>

IpAddr_BROADCAST == <<255, 255, 255, 255>>

\* IpAddr::from_str
from_str(s) ==
    LET parts == split(s, ".")
    IN  IF Len(parts) # 4 THEN Err("AddressFormatError")
        ELSE LET octets == <<parse_u8(parts[1]), parse_u8(parts[2]),
                             parse_u8(parts[3]), parse_u8(parts[4])>>
             IN  IF \E i \in 1..4 : ~octets[i].ok THEN Err("AddressFormatError")
                 ELSE Ok(<<octets[1].v, octets[2].v, octets[3].v, octets[4].v>>)

\* "{}" of a u8: its decimal digits, no sign, no leading zero.
fmt_u8(n) ==
    IF n >= 100
    THEN <<Digits[(n \div 100) + 1], Digits[((n \div 10) % 10) + 1], Digits[(n % 10) + 1]>>
    ELSE IF n >= 10 THEN <<Digits[(n \div 10) + 1], Digits[(n % 10) + 1]>>
    ELSE <<Digits[n + 1]>>

\* IpAddr::to_string and Display for IpAddr
to_string(a) ==
    fmt_u8(a[1]) \o <<".">> \o fmt_u8(a[2]) \o <<".">> \o fmt_u8(a[3]) \o <<".">> \o fmt_u8(a[4])

\* x & y on unsigned integers.
RECURSIVE BitAnd(_, _)
BitAnd(x, y) ==
    IF x = 0 \/ y = 0 THEN 0
    ELSE (x % 2) * (y % 2) + 2 * BitAnd(x \div 2, y \div 2)

BitAndByte(x, y) == BitAnd(x, y)

\* impl BitAnd / BitOr / Not for IpAddr: bitwise on the u32, so byte by byte.
IpAddr_bitand(a, b) ==
    <<BitAndByte(a[1], b[1]), BitAndByte(a[2], b[2]), BitAndByte(a[3], b[3]),
      BitAndByte(a[4], b[4])>>

IpAddr_bitor(a, b) ==
    <<a[1] + b[1] - BitAndByte(a[1], b[1]), a[2] + b[2] - BitAndByte(a[2], b[2]),
      a[3] + b[3] - BitAndByte(a[3], b[3]), a[4] + b[4] - BitAndByte(a[4], b[4])>>

IpAddr_not(a) == <<255 - a[1], 255 - a[2], 255 - a[3], 255 - a[4]>>

(***************************************************************************)
(* iface.rs: IpIface and NetIface.                                         *)
(***************************************************************************)
\* The IpIface of a unicast address and a netmask, the broadcast address derived.
\* A plausible slip: the network address is taken for the broadcast address.
IpIface_of_network_address(u, m, device_index) ==
    [unicast |-> u, netmask |-> m,
     broadcast |-> IpAddr_bitand(u, m),
     device_index |-> device_index]

IpIface_of(u, m, device_index) ==
    [unicast |-> u, netmask |-> m,
     broadcast |-> IpAddr_bitor(IpAddr_bitand(u, m), IpAddr_not(m)),
     device_index |-> device_index]

\* IpIface::new: both texts parsed, `?` returning the first error.
IpIface_new(unicast, netmask, device_index) ==
    LET parsed_unicast == from_str(unicast)
        parsed_netmask == from_str(netmask)
    IN  IF ~parsed_unicast.ok THEN parsed_unicast
        ELSE IF ~parsed_netmask.ok THEN parsed_netmask
        ELSE Ok(IpIface_of(parsed_unicast.v, parsed_netmask.v, device_index))

\* A plausible slip: the unicast address is left out of the match.
is_destination_match_no_unicast(iface, dst) ==
    dst = iface.broadcast \/ dst = IpAddr_BROADCAST

\* IpIface::is_destination_match
\* A plausible slip: every address of the interface's subnet matches.
is_destination_match_subnet(iface, dst) ==
    \/ IpAddr_bitand(dst, iface.netmask) = IpAddr_bitand(iface.unicast, iface.netmask)
    \/ dst = IpAddr_BROADCAST

is_destination_match(iface, dst) ==
    dst = iface.unicast \/ dst = iface.broadcast \/ dst = IpAddr_BROADCAST

\* NetIface::Ip(iface)
NetIface_Ip(iface) == [family |-> "Ip", ip |-> iface]

\* NetIface::family
NetIface_family(iface) == iface.family

(***************************************************************************)
(* protocol/icmp.rs                                                        *)
(***************************************************************************)
ICMP_HDR_SIZE == 8

\* IcmpType::from_u8 followed by icmp_type_ntoa
icmp_type_ntoa(type_) ==
    CASE type_ = 0 -> "EchoReply"
      [] type_ = 3 -> "DestinationUnreachable"
      [] type_ = 4 -> "SourceQuench"
      [] type_ = 5 -> "Redirect"
      [] type_ = 8 -> "Echo"
      [] type_ = 11 -> "TimeExceeded"
      [] type_ = 12 -> "ParameterProblem"
      [] type_ = 13 -> "Timestamp"
      [] type_ = 14 -> "TimestampReply"
      [] type_ = 15 -> "InformationRequest"
      [] type_ = 16 -> "InformationReply"
      [] OTHER -> "Unknown"

\* IcmpType::from_u8
IcmpType_from_u8(value) ==
    CASE value = 0 -> Some("EchoReply")
      [] value = 3 -> Some("DestUnreachable")
      [] value = 4 -> Some("SourceQuench")
      [] value = 5 -> Some("Redirect")
      [] value = 8 -> Some("Echo")
      [] value = 11 -> Some("TimeExceeded")
      [] value = 12 -> Some("ParameterProblem")
      [] value = 13 -> Some("Timestamp")
      [] value = 14 -> Some("TimestampReply")
      [] value = 15 -> Some("InfoRequest")
      [] value = 16 -> Some("InfoReply")
      [] OTHER -> None

\* A plausible slip: the checksum field is read least significant byte first.
IcmpHdr_from_bytes_le_sum(data) ==
    IF Len(data) < ICMP_HDR_SIZE THEN None
    ELSE Some([type_ |-> data[1], code |-> data[2],
               sum |-> data[4] * 256 + data[3],
               values |-> [hi |-> data[5] * 256 + data[6], lo |-> data[7] * 256 + data[8]]])

\* IcmpHdr::from_bytes.  The u32 `values` (u32::from_be_bytes of bytes 4..8)
\* is held as its upper and its lower 16 bits.
IcmpHdr_from_bytes(data) ==
    IF Len(data) < ICMP_HDR_SIZE THEN None
    ELSE Some([type_ |-> data[1], code |-> data[2],
               sum |-> data[3] * 256 + data[4],
               values |-> [hi |-> data[5] * 256 + data[6], lo |-> data[7] * 256 + data[8]]])

\* IcmpHdr::type_enum
IcmpHdr_type_enum(hdr) == IcmpType_from_u8(hdr.type_)

\* IcmpHdr::echo_id: (self.values >> 16) as u16
IcmpHdr_echo_id(hdr) == hdr.values.hi

\* IcmpHdr::echo_seq: (self.values & 0xFFFF) as u16
IcmpHdr_echo_seq(hdr) == hdr.values.lo

\* A plausible slip: the checksum of the message is not verified.
icmp_input_no_checksum(data, src, dst) ==
    IF Len(data) < ICMP_HDR_SIZE
    THEN [data |-> data, src |-> src, dst |-> dst, outcome |-> "TooShort", type |-> "-",
          replies |-> <<>>]
    ELSE [data |-> data, src |-> src, dst |-> dst, outcome |-> "Decoded",
          type |-> icmp_type_ntoa(data[1]), replies |-> <<>>]

\* icmp::input returns (); `outcome` is the branch it took and `replies` the
\* calls of ip_output and Device::output it makes: there is none in its body.
icmp_input(data, src, dst) ==
    IF Len(data) < ICMP_HDR_SIZE
    THEN [data |-> data, src |-> src, dst |-> dst, outcome |-> "TooShort", type |-> "-",
          replies |-> <<>>]
    ELSE IF cksum16(data, 0) # 0
    THEN [data |-> data, src |-> src, dst |-> dst, outcome |-> "ChecksumError", type |-> "-",
          replies |-> <<>>]
    ELSE [data |-> data, src |-> src, dst |-> dst, outcome |-> "Decoded",
          type |-> icmp_type_ntoa(data[1]), replies |-> <<>>]

(***************************************************************************)
(* protocol/ip.rs: the header and the input pipeline.                      *)
(***************************************************************************)
IP_VERSION_IPV4 == 4

IP_HDR_SIZE_MIN == 20

IP_TOTAL_SIZE_MAX == 65535

IP_HDR_FLAG_MF == 8192

IP_HDR_OFFSET_MASK == 8191

IP_TTL_DEFAULT == 255

\* IpProtocol::from_u8
IpProtocol_from_u8(value) ==
    CASE value = 1 -> [tag |-> "Icmp", v |-> 1]
      [] value = 6 -> [tag |-> "Tcp", v |-> 6]
      [] value = 17 -> [tag |-> "Udp", v |-> 17]
      [] OTHER -> [tag |-> "Other", v |-> value]

\* IpProtocol::to_u8
IpProtocol_to_u8(protocol) ==
    CASE protocol.tag = "Icmp" -> 1
      [] protocol.tag = "Tcp" -> 6
      [] protocol.tag = "Udp" -> 17
      [] OTHER -> protocol.v

\* The fields IpHdr::from_bytes overlays on the first 20 bytes of the buffer.
IpHdr_vhl(data) == data[1]

IpHdr_total(data) == <<data[3], data[4]>>

IpHdr_offset(data) == <<data[7], data[8]>>

IpHdr_protocol(data) == data[10]

IpHdr_src(data) == Slice(data, 12, 16)

IpHdr_dst(data) == Slice(data, 16, 20)

\* IpHdr::version
IpHdr_version(data) == (IpHdr_vhl(data) \div 16) % 16

\* IpHdr::hdr_len
IpHdr_hdr_len(data) == (IpHdr_vhl(data) % 16) * 4

\* A plausible slip: only the fragment offset is examined, the MF flag is not.
IsFragmentOffsetOnly(offset) == offset % (IP_HDR_OFFSET_MASK + 1) # 0

\* offset & (IP_HDR_FLAG_MF | IP_HDR_OFFSET_MASK) != 0 : bit 13 or one of bits 0..12
IsFragment(offset) == (offset \div IP_HDR_FLAG_MF) % 2 = 1 \/ offset % (IP_HDR_OFFSET_MASK + 1) # 0

\* What ip_input returns and does: the gate that ended it, whether an interface
\* matched, and the calls made to icmp::input.
IpInputOutcome(result, gate, matched, consumer, icmp) ==
    [result |-> result, gate |-> gate, matched |-> matched, consumer |-> consumer,
     icmp |-> icmp]

\* A plausible slip: an unmatched packet is handed on like a matched one.
ip_input_deliver_unmatched(data, dev) ==
    LET hlen == IpHdr_hdr_len(data)
        total == ntoh16(IpHdr_total(data))
        protocol == IpProtocol_from_u8(IpHdr_protocol(data))
    IN  IF hlen > total
        THEN IpInputOutcome(Err("Panic"), "PayloadSlice", TRUE, "none", <<>>)
        ELSE IF protocol.tag = "Icmp"
        THEN IpInputOutcome(Ok(<<>>), "Dispatched", TRUE, "Icmp",
                 <<icmp_input(Slice(data, hlen, total), IpHdr_src(data), IpHdr_dst(data))>>)
        ELSE IpInputOutcome(Ok(<<>>), "Dispatched", TRUE, protocol.tag, <<>>)

\* The match against the originating device's interfaces and the dispatch.
ip_input_deliver(data, dev) ==
    LET hlen == IpHdr_hdr_len(data)
        total == ntoh16(IpHdr_total(data))
        dst == IpHdr_dst(data)
        matched == \E k \in 1..Len(dev.ifaces) : is_destination_match(dev.ifaces[k].ip, dst)
        protocol == IpProtocol_from_u8(IpHdr_protocol(data))
    IN  IF ~matched THEN IpInputOutcome(Ok(<<>>), "NoMatch", FALSE, "none", <<>>)
        ELSE IF hlen > total
        THEN IpInputOutcome(Err("Panic"), "PayloadSlice", TRUE, "none", <<>>)
        ELSE IF protocol.tag = "Icmp"
        THEN IpInputOutcome(Ok(<<>>), "Dispatched", TRUE, "Icmp",
                 <<icmp_input(Slice(data, hlen, total), IpHdr_src(data), dst)>>)
        ELSE IpInputOutcome(Ok(<<>>), "Dispatched", TRUE, protocol.tag, <<>>)

\* A plausible slip: the fragmentation gate stands before the total-length gate.
ip_input_fragment_gate_first(data, dev) ==
    IF Len(data) < IP_HDR_SIZE_MIN
    THEN IpInputOutcome(Err("TooShort"), "Length", FALSE, "none", <<>>)
    ELSE IF IpHdr_version(data) # IP_VERSION_IPV4
    THEN IpInputOutcome(Err("UnsupportedVersion"), "Version", FALSE, "none", <<>>)
    ELSE IF Len(data) < IpHdr_hdr_len(data)
    THEN IpInputOutcome(Err("TooShortForHeaderLength"), "HeaderLength", FALSE, "none", <<>>)
    ELSE IF cksum16(Slice(data, 0, IpHdr_hdr_len(data)), 0) # 0
    THEN IpInputOutcome(Err("ChecksumError"), "Checksum", FALSE, "none", <<>>)
    ELSE IF IsFragment(ntoh16(IpHdr_offset(data)))
    THEN IpInputOutcome(Err("FragmentationUnsupported"), "Fragmentation", FALSE, "none", <<>>)
    ELSE IF Len(data) < ntoh16(IpHdr_total(data))
    THEN IpInputOutcome(Err("TooShortForTotalLength"), "TotalLength", FALSE, "none", <<>>)
    ELSE ip_input_deliver(data, dev)

\* ip_input
\* A plausible slip: the header checksum is verified before the version.
ip_input_checksum_before_version(data, dev) ==
    IF Len(data) < IP_HDR_SIZE_MIN
    THEN IpInputOutcome(Err("TooShort"), "Length", FALSE, "none", <<>>)
    ELSE IF Len(data) < IpHdr_hdr_len(data)
    THEN IpInputOutcome(Err("TooShortForHeaderLength"), "HeaderLength", FALSE, "none", <<>>)
    ELSE IF cksum16(Slice(data, 0, IpHdr_hdr_len(data)), 0) # 0
    THEN IpInputOutcome(Err("ChecksumError"), "Checksum", FALSE, "none", <<>>)
    ELSE IF IpHdr_version(data) # IP_VERSION_IPV4
    THEN IpInputOutcome(Err("UnsupportedVersion"), "Version", FALSE, "none", <<>>)
    ELSE IF Len(data) < ntoh16(IpHdr_total(data))
    THEN IpInputOutcome(Err("TooShortForTotalLength"), "TotalLength", FALSE, "none", <<>>)
    ELSE IF IsFragment(ntoh16(IpHdr_offset(data)))
    THEN IpInputOutcome(Err("FragmentationUnsupported"), "Fragmentation", FALSE, "none", <<>>)
    ELSE ip_input_deliver(data, dev)

ip_input(data, dev) ==
    IF Len(data) < IP_HDR_SIZE_MIN
    THEN IpInputOutcome(Err("TooShort"), "Length", FALSE, "none", <<>>)
    ELSE IF IpHdr_version(data) # IP_VERSION_IPV4
    THEN IpInputOutcome(Err("UnsupportedVersion"), "Version", FALSE, "none", <<>>)
    ELSE IF Len(data) < IpHdr_hdr_len(data)
    THEN IpInputOutcome(Err("TooShortForHeaderLength"), "HeaderLength", FALSE, "none", <<>>)
    ELSE IF cksum16(Slice(data, 0, IpHdr_hdr_len(data)), 0) # 0
    THEN IpInputOutcome(Err("ChecksumError"), "Checksum", FALSE, "none", <<>>)
    ELSE IF Len(data) < ntoh16(IpHdr_total(data))
    THEN IpInputOutcome(Err("TooShortForTotalLength"), "TotalLength", FALSE, "none", <<>>)
    ELSE IF IsFragment(ntoh16(IpHdr_offset(data)))
    THEN IpInputOutcome(Err("FragmentationUnsupported"), "Fragmentation", FALSE, "none", <<>>)
    ELSE ip_input_deliver(data, dev)

\* ip_input_handler: the error is logged, nothing is returned.
ip_input_handler(data, dev) == ip_input(data, dev)

(***************************************************************************)
(* context.rs: the identification counter and the interface registry.      *)
(***************************************************************************)
\* IpIdManager::new: AtomicU16::new(1)
IpIdManager_new == 1

\* A plausible slip: the counter is read on entry and the sum written back
\* later, as two memory operations.
AtomicU16_load_then_store(mem, loaded, val) ==
    [value |-> loaded, mem |-> (loaded + val) % 65536]

\* AtomicU16::fetch_add(val, Relaxed): one read-modify-write of the value in
\* memory; it returns the previous value and wraps around.  `loaded` is what
\* the caller saw in memory when it entered; the atomic operation does not
\* use it.
AtomicU16_fetch_add(mem, loaded, val) ==
    [value |-> mem, mem |-> (mem + val) % 65536]

\* A plausible slip: the value after the increment is returned.
IpIdManager_next_returns_new(mem) ==
    [value |-> AtomicU16_fetch_add(mem, mem, 1).mem, mem |-> AtomicU16_fetch_add(mem, mem, 1).mem]

\* IpIdManager::next from a single caller.
IpIdManager_next(mem) == AtomicU16_fetch_add(mem, mem, 1)

\* A plausible slip: the duplicate check is missing ("check for duplicates could
\* be added here").
IpIfaceRegistry_register_no_check(ifaces, iface) == Ok(Append(ifaces, iface))

\* IpIfaceRegistry::register: the new list, or the duplicate-address error.
IpIfaceRegistry_register(ifaces, iface) ==
    IF \E k \in 1..Len(ifaces) : ifaces[k].unicast = iface.unicast
    THEN Err("DuplicateAddress")
    ELSE Ok(Append(ifaces, iface))

\* IpIfaceRegistry::select: the first entry with that unicast address.
IpIfaceRegistry_select(ifaces, addr) ==
    IF \E k \in 1..Len(ifaces) : ifaces[k].unicast = addr
    THEN Some(ifaces[CHOOSE k \in 1..Len(ifaces) :
                  /\ ifaces[k].unicast = addr
                  /\ \A j \in 1..(k - 1) : ifaces[j].unicast # addr])
    ELSE None

(***************************************************************************)
(* protocol/mod.rs: protocol types and the dispatch table.                 *)
(***************************************************************************)
PROTOCOL_TYPE_IP == 2048

PROTOCOL_TYPE_ARP == 2054

PROTOCOL_TYPE_IPV6 == 34525

ProtocolType_Ip == [tag |-> "Ip", v |-> PROTOCOL_TYPE_IP]

ProtocolType_Arp == [tag |-> "Arp", v |-> PROTOCOL_TYPE_ARP]

ProtocolType_Ipv6 == [tag |-> "Ipv6", v |-> PROTOCOL_TYPE_IPV6]

ProtocolType_Unknown(value) == [tag |-> "Unknown", v |-> value]

\* impl From<u16> for ProtocolType
ProtocolType_from(value) ==
    CASE value = PROTOCOL_TYPE_IP -> ProtocolType_Ip
      [] value = PROTOCOL_TYPE_ARP -> ProtocolType_Arp
      [] value = PROTOCOL_TYPE_IPV6 -> ProtocolType_Ipv6
      [] OTHER -> ProtocolType_Unknown(value)

\* A plausible slip: a second registration replaces the handler of the type.
ProtocolManager_register_replaces(table, type_, handler) ==
    IF \E k \in 1..Len(table) : table[k].type_ = type_
    THEN Ok([k \in 1..Len(table) |->
                IF table[k].type_ = type_ THEN [type_ |-> type_, handler |-> handler]
                ELSE table[k]])
    ELSE Ok(Append(table, [type_ |-> type_, handler |-> handler]))

\* ProtocolManager::register: the new table, or the already-registered error.
ProtocolManager_register(table, type_, handler) ==
    IF \E k \in 1..Len(table) : table[k].type_ = type_
    THEN Err("AlreadyRegistered")
    ELSE Ok(Append(table, [type_ |-> type_, handler |-> handler]))

\* (protocol.handler)(data, dev, ctx): ip_input_handler is the handler of the stack.
CallHandler(handler, data, dev) ==
    IF handler = "ip_input_handler" THEN ip_input_handler(data, dev)
    ELSE IpInputOutcome(Ok(<<>>), "NotIp", FALSE, "none", <<>>)

\* A plausible slip: the comparison of the types is missing and the first
\* handler of the table is taken.
ProtocolManager_dispatch_first(table, type_, data, dev) ==
    IF Len(table) > 0
    THEN <<[handler |-> table[1].handler, type_ |-> type_, data |-> data,
            dev |-> dev.index, outcome |-> CallHandler(table[1].handler, data, dev)]>>
    ELSE <<>>

\* ProtocolManager::dispatch: the handler invocations it made (none or one).
ProtocolManager_dispatch(table, type_, data, dev) ==
    LET protocol_type == ProtocolType_from(type_)
    IN  IF \E k \in 1..Len(table) : table[k].type_ = protocol_type
        THEN LET k == CHOOSE j \in 1..Len(table) :
                          /\ table[j].type_ = protocol_type
                          /\ \A m \in 1..(j - 1) : table[m].type_ # protocol_type
             IN  <<[handler |-> table[k].handler, type_ |-> type_, data |-> data,
                    dev |-> dev.index, outcome |-> CallHandler(table[k].handler, data, dev)]>>
        ELSE <<>>

(***************************************************************************)
(* device/mod.rs and device/loopback.rs: devices and their capabilities.   *)
(***************************************************************************)
NET_DEVICE_FLAG_UP == 1

NET_DEVICE_FLAG_LOOPBACK == 16

NET_DEVICE_FLAG_BROADCAST == 32

NET_DEVICE_FLAG_NEED_ARP == 256

NET_DEVICE_ADDR_LEN == 16

LOOPBACK_MTU == 65535

\* Device::is_up
is_up(dev) == BitAnd(dev.flags, NET_DEVICE_FLAG_UP) # 0

\* Device::default
Device_default ==
    [index |-> 0, name |-> <<>>, device_type |-> "Dummy", mtu |-> 0, flags |-> 0,
     alen |-> 0, broadcast |-> <<0, 0, 0, 0, 0, 0, 0, 0, 0, 0, 0, 0, 0, 0, 0, 0>>, ops |-> "None",
     ifaces |-> <<>>]

\* The closure App::setup_loopback hands to loopback::init: the device is looked
\* up by index and the bytes go to ProtocolManager::dispatch.  The value is the
\* calls of dispatch it made, each with the handler invocations of that call.
output_callback(devs, table, type_, data, index) ==
    IF index < Len(devs)
    THEN <<[type_ |-> type_, data |-> data, dev |-> devs[index + 1].index,
            invoked |-> ProtocolManager_dispatch(table, type_, data, devs[index + 1])]>>
    ELSE <<>>

\* What Device::output returns and does: the calls of the transmit capability and
\* the calls of ProtocolManager::dispatch made from inside them.
OutputOutcome(result, transmits, dispatches) ==
    [result |-> result, transmits |-> transmits, dispatches |-> dispatches]

\* A plausible slip: transmit returns Ok without calling the output callback.
DeviceOps_transmit_silent(devs, table, dev, device_type, data, dst) ==
    IF dev.ops = "None" THEN OutputOutcome(Ok(<<>>), <<>>, <<>>)
    ELSE OutputOutcome(Ok(<<>>),
             <<[dev |-> dev.index, type_ |-> device_type, data |-> data, dst |-> dst]>>,
             <<>>)

\* ops.transmit(self, device_type, data, dst) for the capability the device
\* carries.  LoopbackOps::transmit calls the output callback and returns Ok.
DeviceOps_transmit(devs, table, dev, device_type, data, dst) ==
    IF dev.ops = "None" THEN OutputOutcome(Ok(<<>>), <<>>, <<>>)
    ELSE OutputOutcome(Ok(<<>>),
             <<[dev |-> dev.index, type_ |-> device_type, data |-> data, dst |-> dst]>>,
             output_callback(devs, table, device_type, data, dev.index))

\* A plausible slip: the link destination is not handed on to transmit.
Device_output_no_dst(devs, table, dev, device_type, data, dst) ==
    IF ~is_up(dev) THEN OutputOutcome(Err("NotUp"), <<>>, <<>>)
    ELSE IF Len(data) > dev.mtu THEN OutputOutcome(Err("PayloadTooLarge"), <<>>, <<>>)
    ELSE DeviceOps_transmit(devs, table, dev, device_type, data, None)

\* A plausible slip: the length check is dropped.
Device_output_no_mtu_check(devs, table, dev, device_type, data, dst) ==
    IF ~is_up(dev) THEN OutputOutcome(Err("NotUp"), <<>>, <<>>)
    ELSE DeviceOps_transmit(devs, table, dev, device_type, data, dst)

\* A plausible slip: the up-state check is dropped.
Device_output_no_up_check(devs, table, dev, device_type, data, dst) ==
    IF Len(data) > dev.mtu THEN OutputOutcome(Err("PayloadTooLarge"), <<>>, <<>>)
    ELSE DeviceOps_transmit(devs, table, dev, device_type, data, dst)

\* Device::output
Device_output(devs, table, dev, device_type, data, dst) ==
    IF ~is_up(dev) THEN OutputOutcome(Err("NotUp"), <<>>, <<>>)
    ELSE IF Len(data) > dev.mtu THEN OutputOutcome(Err("PayloadTooLarge"), <<>>, <<>>)
    ELSE DeviceOps_transmit(devs, table, dev, device_type, data, dst)

\* ops.open(self) and ops.close(self) under `if let Some(ops)`: the calls of the
\* capability the device carries.  LoopbackOps::open and ::close return Ok.
DeviceOps_call(dev, op) ==
    IF dev.ops = "None" THEN <<>> ELSE <<[op |-> op, dev |-> dev.index]>>

\* A plausible slip: the up flag is assigned instead of or-ed into the flags.
Device_open_assigns_flags(dev) ==
    IF is_up(dev) THEN [dev |-> dev, result |-> Err("AlreadyUp"), calls |-> <<>>]
    ELSE [dev |-> [dev EXCEPT !.flags = NET_DEVICE_FLAG_UP],
          result |-> Ok(<<>>), calls |-> DeviceOps_call(dev, "open")]

\* Device::open: the device afterwards, the result and the capability calls.
\* A plausible slip: opening a device that is up is accepted as done.
Device_open_idempotent(dev) ==
    IF is_up(dev) THEN [dev |-> dev, result |-> Ok(<<>>), calls |-> <<>>]
    ELSE [dev |-> [dev EXCEPT !.flags = dev.flags + NET_DEVICE_FLAG_UP],
          result |-> Ok(<<>>), calls |-> DeviceOps_call(dev, "open")]

Device_open(dev) ==
    IF is_up(dev) THEN [dev |-> dev, result |-> Err("AlreadyUp"), calls |-> <<>>]
    ELSE [dev |-> [dev EXCEPT !.flags = dev.flags + NET_DEVICE_FLAG_UP],
          result |-> Ok(<<>>), calls |-> DeviceOps_call(dev, "open")]

\* Device::close: the device afterwards, the result and the capability calls.
Device_close(dev) ==
    IF ~is_up(dev) THEN [dev |-> dev, result |-> Err("NotUp"), calls |-> <<>>]
    ELSE [dev |-> [dev EXCEPT !.flags = dev.flags - NET_DEVICE_FLAG_UP],
          result |-> Ok(<<>>), calls |-> DeviceOps_call(dev, "close")]

\* Device::register_iface: the device afterwards and the result.
Device_register_iface(dev, iface) ==
    IF \E k \in 1..Len(dev.ifaces) : NetIface_family(iface) = NetIface_family(dev.ifaces[k])
    THEN [dev |-> dev, result |-> Err("FamilyAlreadyRegistered")]
    ELSE [dev |-> [dev EXCEPT !.ifaces = Append(dev.ifaces, iface)], result |-> Ok(<<>>)]

\* format!("net{}", index.0)
DeviceName(index) ==
    <<"n", "e", "t">> \o (IF index >= 10 THEN fmt_u8(index) ELSE <<Digits[index + 1]>>)

\* A plausible slip: the index is taken from the length after the push.
DeviceManager_register_after_push(devs, dev) ==
    [devices |-> Append(devs, [dev EXCEPT !.index = Len(devs) + 1,
                                          !.name = DeviceName(Len(devs) + 1)]),
     result |-> Ok(Len(devs) + 1)]

\* DeviceManager::register: the index is the length of the list, the name follows.
DeviceManager_register(devs, dev) ==
    [devices |-> Append(devs, [dev EXCEPT !.index = Len(devs), !.name = DeviceName(Len(devs))]),
     result |-> Ok(Len(devs))]

\* loopback::init: registered without a capability, which is attached afterwards.
loopback_init(devs) ==
    LET dev == [Device_default EXCEPT !.device_type = "Loopback", !.mtu = LOOPBACK_MTU,
                                      !.flags = NET_DEVICE_FLAG_LOOPBACK]
        reg == DeviceManager_register(devs, dev)
    IN  [devices |-> [reg.devices EXCEPT ![reg.result.v + 1].ops = "Loopback"],
         result |-> reg.result]

\* The loop of DeviceManager::run from the k-th device on: `?` returns at the
\* first open that fails, with the devices opened so far left open.
RECURSIVE DeviceManager_run_from(_, _)
DeviceManager_run_from(devs, k) ==
    IF k > Len(devs) THEN [devices |-> devs, result |-> Ok(<<>>)]
    ELSE LET r == Device_open(devs[k])
         IN  IF ~r.result.ok THEN [devices |-> devs, result |-> r.result]
             ELSE DeviceManager_run_from([devs EXCEPT ![k] = r.dev], k + 1)

\* A plausible slip: a failed open is passed over and the loop goes on; the
\* first error is returned at the end.
RECURSIVE DeviceManager_run_on_from(_, _, _)
DeviceManager_run_on_from(devs, k, result) ==
    IF k > Len(devs) THEN [devices |-> devs, result |-> result]
    ELSE LET r == Device_open(devs[k])
         IN  DeviceManager_run_on_from([devs EXCEPT ![k] = r.dev], k + 1,
                                       IF result.ok THEN r.result ELSE result)

DeviceManager_run_goes_on(devs) == DeviceManager_run_on_from(devs, 1, Ok(<<>>))

\* DeviceManager::run
DeviceManager_run(devs) == DeviceManager_run_from(devs, 1)

\* The loop of DeviceManager::shutdown from the k-th device on.
RECURSIVE DeviceManager_shutdown_from(_, _)
DeviceManager_shutdown_from(devs, k) ==
    IF k > Len(devs) THEN [devices |-> devs, result |-> Ok(<<>>)]
    ELSE LET r == Device_close(devs[k])
         IN  IF ~r.result.ok THEN [devices |-> devs, result |-> r.result]
             ELSE DeviceManager_shutdown_from([devs EXCEPT ![k] = r.dev], k + 1)

\* DeviceManager::shutdown
DeviceManager_shutdown(devs) == DeviceManager_shutdown_from(devs, 1)

(***************************************************************************)
(* protocol/ip.rs: interface registration and the output pipeline.         *)
(***************************************************************************)
\* ip::register_iface: the interface is pushed on the device, then registered
\* in the global registry; `?` returns at the first error.
ip_register_iface(dev, unicast, netmask, ifaces) ==
    LET made == IpIface_new(unicast, netmask, dev.index)
    IN  IF ~made.ok THEN [dev |-> dev, ip_ifaces |-> ifaces, result |-> made]
        ELSE LET pushed == [dev EXCEPT !.ifaces = Append(dev.ifaces, NetIface_Ip(made.v))]
                 reg == IpIfaceRegistry_register(ifaces, made.v)
             IN  IF ~reg.ok THEN [dev |-> pushed, ip_ifaces |-> ifaces, result |-> reg]
                 ELSE [dev |-> pushed, ip_ifaces |-> reg.v, result |-> Ok(<<>>)]

\* A plausible slip: the total length is stored without hton16 on a
\* little-endian host.
IpHdr_new_host_order_total(protocol, total, id, offset, src, dst) ==
    <<(IP_VERSION_IPV4 * 16) + (IP_HDR_SIZE_MIN \div 4), 0>>
    \o <<total % 256, total \div 256>> \o hton16(id) \o hton16(offset)
    \o <<IP_TTL_DEFAULT, IpProtocol_to_u8(protocol)>> \o <<0, 0>> \o src \o dst

\* IpHdr::new followed by to_bytes: the 20 bytes of the header, checksum field 0.
IpHdr_new(protocol, total, id, offset, src, dst) ==
    <<(IP_VERSION_IPV4 * 16) + (IP_HDR_SIZE_MIN \div 4), 0>>
    \o hton16(total) \o hton16(id) \o hton16(offset)
    \o <<IP_TTL_DEFAULT, IpProtocol_to_u8(protocol)>> \o <<0, 0>> \o src \o dst

\* A plausible slip: the checksum stored without hton16 on a little-endian host.
IpHdr_with_checksum_swapped(hdr) ==
    LET zeroed == [hdr EXCEPT ![11] = 0, ![12] = 0]
        sum == hton16(cksum16(zeroed, 0))
    IN  [zeroed EXCEPT ![11] = sum[2], ![12] = sum[1]]

\* IpHdr::with_checksum
IpHdr_with_checksum(hdr) ==
    LET zeroed == [hdr EXCEPT ![11] = 0, ![12] = 0]
        sum == hton16(cksum16(zeroed, 0))
    IN  [zeroed EXCEPT ![11] = sum[1], ![12] = sum[2]]

\* build_packet: header and payload in one buffer of buf_len bytes.
build_packet(protocol, data, id, offset, src, dst, buf_len) ==
    LET total == IP_HDR_SIZE_MIN + Len(data)
    IN  IF buf_len < total THEN Err("BufferTooSmall")
        ELSE Ok(IpHdr_with_checksum(IpHdr_new(protocol, total % 65536, id, offset, src, dst))
                \o data)

\* A plausible slip: a destination that needs address resolution is sent to
\* the broadcast hardware address like a broadcast.
output_device_always_broadcast(iface, data, target, devs, table) ==
    IF iface.device_index >= Len(devs) THEN OutputOutcome(Err("DeviceNotFound"), <<>>, <<>>)
    ELSE LET dev == devs[iface.device_index + 1]
         IN  IF BitAnd(dev.flags, NET_DEVICE_FLAG_NEED_ARP) # 0
             THEN Device_output(devs, table, dev, PROTOCOL_TYPE_IP, data,
                                Some(Slice(dev.broadcast, 0, dev.alen)))
             ELSE Device_output(devs, table, dev, PROTOCOL_TYPE_IP, data, None)

\* output_device: the link destination, then Device::output.
output_device(iface, data, target, devs, table) ==
    IF iface.device_index >= Len(devs) THEN OutputOutcome(Err("DeviceNotFound"), <<>>, <<>>)
    ELSE LET dev == devs[iface.device_index + 1]
         IN  IF BitAnd(dev.flags, NET_DEVICE_FLAG_NEED_ARP) # 0
             THEN IF target = iface.broadcast \/ target = IpAddr_BROADCAST
                  THEN Device_output(devs, table, dev, PROTOCOL_TYPE_IP, data,
                                     Some(Slice(dev.broadcast, 0, dev.alen)))
                  ELSE OutputOutcome(Err("AddressResolutionUnavailable"), <<>>, <<>>)
             ELSE Device_output(devs, table, dev, PROTOCOL_TYPE_IP, data, None)

\* What ip_output returns and does: the registry lookups, the packet built, and
\* what Device::output did with it.
IpOutputOutcome(result, selects, packet, sent) ==
    [result |-> result, selects |-> selects, packet |-> packet,
     transmits |-> sent.transmits, dispatches |-> sent.dispatches]

NothingSent == OutputOutcome(Ok(<<>>), <<>>, <<>>)

\* What the two slips below share with ip_output: the steps behind the
\* reachability check, with or without the MTU check.
ip_output_send(protocol, payload, dst, id, sel, devs, table, check_mtu) ==
    IF sel.v.device_index >= Len(devs)
    THEN IpOutputOutcome(Err("DeviceNotFound"), 1, <<>>, NothingSent)
    ELSE IF check_mtu /\ devs[sel.v.device_index + 1].mtu < IP_HDR_SIZE_MIN + Len(payload)
    THEN IpOutputOutcome(Err("PacketTooLarge"), 1, <<>>, NothingSent)
    ELSE LET built == build_packet(protocol, payload, id, 0, sel.v.unicast, dst,
                                   IP_TOTAL_SIZE_MAX)
         IN  IF ~built.ok THEN IpOutputOutcome(built, 1, <<>>, NothingSent)
             ELSE LET sent == output_device(sel.v, built.v, dst, devs, table)
                  IN  IF ~sent.result.ok
                      THEN IpOutputOutcome(sent.result, 1, built.v, sent)
                      ELSE IpOutputOutcome(Ok(Len(built.v)), 1, built.v, sent)

\* A plausible slip: the exception for the global broadcast address is missing
\* from the reachability check.
ip_output_from_subnet_only(protocol, payload, src, dst, id, ifaces, devs, table) ==
    LET sel == IpIfaceRegistry_select(ifaces, src)
    IN  IF ~sel.ok THEN IpOutputOutcome(Err("InterfaceNotFound"), 1, <<>>, NothingSent)
        ELSE IF IpAddr_bitand(dst, sel.v.netmask) # IpAddr_bitand(sel.v.unicast, sel.v.netmask)
        THEN IpOutputOutcome(Err("Unreachable"), 1, <<>>, NothingSent)
        ELSE ip_output_send(protocol, payload, dst, id, sel, devs, table, TRUE)

\* A plausible slip: the MTU check is missing and the length is left to
\* Device::output.
ip_output_from_no_mtu_check(protocol, payload, src, dst, id, ifaces, devs, table) ==
    LET sel == IpIfaceRegistry_select(ifaces, src)
    IN  IF ~sel.ok THEN IpOutputOutcome(Err("InterfaceNotFound"), 1, <<>>, NothingSent)
        ELSE IF /\ IpAddr_bitand(dst, sel.v.netmask) # IpAddr_bitand(sel.v.unicast, sel.v.netmask)
                /\ dst # IpAddr_BROADCAST
        THEN IpOutputOutcome(Err("Unreachable"), 1, <<>>, NothingSent)
        ELSE ip_output_send(protocol, payload, dst, id, sel, devs, table, FALSE)

\* ip_output after the source check: lookup, reachability, MTU, build, send.
\* id is the value random16() returned.
\* A plausible slip: the MTU is checked before the reachability of the
\* destination.
ip_output_from_mtu_first(protocol, payload, src, dst, id, ifaces, devs, table) ==
    LET sel == IpIfaceRegistry_select(ifaces, src)
    IN  IF ~sel.ok THEN IpOutputOutcome(Err("InterfaceNotFound"), 1, <<>>, NothingSent)
        ELSE IF sel.v.device_index >= Len(devs)
        THEN IpOutputOutcome(Err("DeviceNotFound"), 1, <<>>, NothingSent)
        ELSE IF devs[sel.v.device_index + 1].mtu < IP_HDR_SIZE_MIN + Len(payload)
        THEN IpOutputOutcome(Err("PacketTooLarge"), 1, <<>>, NothingSent)
        ELSE IF /\ IpAddr_bitand(dst, sel.v.netmask) # IpAddr_bitand(sel.v.unicast, sel.v.netmask)
                /\ dst # IpAddr_BROADCAST
        THEN IpOutputOutcome(Err("Unreachable"), 1, <<>>, NothingSent)
        ELSE ip_output_send(protocol, payload, dst, id, sel, devs, table, FALSE)

ip_output_from(protocol, payload, src, dst, id, ifaces, devs, table) ==
    LET sel == IpIfaceRegistry_select(ifaces, src)
    IN  IF ~sel.ok THEN IpOutputOutcome(Err("InterfaceNotFound"), 1, <<>>, NothingSent)
        ELSE IF /\ IpAddr_bitand(dst, sel.v.netmask) # IpAddr_bitand(sel.v.unicast, sel.v.netmask)
                /\ dst # IpAddr_BROADCAST
        THEN IpOutputOutcome(Err("Unreachable"), 1, <<>>, NothingSent)
        ELSE IF sel.v.device_index >= Len(devs)
        THEN IpOutputOutcome(Err("DeviceNotFound"), 1, <<>>, NothingSent)
        ELSE IF devs[sel.v.device_index + 1].mtu < IP_HDR_SIZE_MIN + Len(payload)
        THEN IpOutputOutcome(Err("PacketTooLarge"), 1, <<>>, NothingSent)
        ELSE LET built == build_packet(protocol, payload, id, 0, sel.v.unicast, dst,
                                       IP_TOTAL_SIZE_MAX)
             IN  IF ~built.ok THEN IpOutputOutcome(built, 1, <<>>, NothingSent)
                 ELSE LET sent == output_device(sel.v, built.v, dst, devs, table)
                      IN  IF ~sent.result.ok
                          THEN IpOutputOutcome(sent.result, 1, built.v, sent)
                          ELSE IpOutputOutcome(Ok(Len(built.v)), 1, built.v, sent)

\* A plausible slip: the source check is missing and 0.0.0.0 is looked up like
\* any other source.
ip_output_no_source_check(protocol, payload, src, dst, id, ifaces, devs, table) ==
    ip_output_from(protocol, payload, src, dst, id, ifaces, devs, table)

\* ip_output
ip_output(protocol, payload, src, dst, id, ifaces, devs, table) ==
    IF src = IpAddr_ANY THEN IpOutputOutcome(Err("NoRoute"), 0, <<>>, NothingSent)
    ELSE ip_output_from(protocol, payload, src, dst, id, ifaces, devs, table)

(***************************************************************************)
(* Inputs of the calls.                                                    *)
(***************************************************************************)
Addr_lo == <<127, 0, 0, 1>>

Addr_lo_peer == <<127, 0, 0, 2>>

Addr_lo_bcast == <<127, 255, 255, 255>>

Addr_net == <<10, 0, 0, 1>>

Addr_net_bcast == <<10, 0, 0, 255>>

Addr_far == <<8, 8, 8, 8>>

\* main.rs: TEST_ICMP_PACKET, an echo request from 127.0.0.1 to 127.0.0.1.
TEST_ICMP_PACKET ==
    <<69, 0, 0, 48, 0, 128, 0, 0, 255, 1, 189, 74, 127, 0, 0, 1,
      127, 0, 0, 1, 8, 0, 53, 100, 0, 128, 0, 1, 49, 50, 51, 52,
      53, 54, 55, 56, 57, 48, 33, 64, 35, 36, 37, 94, 38, 42, 40, 41>>

\* An ICMP echo request of 8 bytes (identifier 128, sequence 1), checksum filled.
EchoMessage == <<8, 0, 247, 126, 0, 128, 0, 1>>

\* The same message in a 28-byte datagram from 127.0.0.1 to 127.0.0.1.
EchoPacket ==
    <<69, 0, 0, 28, 0, 1, 0, 0, 255, 1, 189, 221, 127, 0, 0, 1, 127, 0, 0, 1>> \o EchoMessage

RECURSIVE Zeros(_)
Zeros(n) == IF n = 0 THEN <<>> ELSE Append(Zeros(n - 1), 0)

\* A payload one byte too long for a small device after the 20-byte header.
LongPayload == Zeros(SmallMtu - IP_HDR_SIZE_MIN + 1)

\* TEST_ICMP_PACKET is longer than the MTU of a small device, EchoPacket is not.
OutputData == {TEST_ICMP_PACKET, EchoPacket}

HwBroadcast == <<255, 255, 255, 255, 255, 255>>

OutputTypeAndDst == {<<PROTOCOL_TYPE_IP, None>>, <<PROTOCOL_TYPE_ARP, Some(HwBroadcast)>>}

Text_lo == to_string(Addr_lo)

Text_net == to_string(Addr_net)

\* The (unicast, netmask) texts handed to the interface constructors: 127.0.0.1,
\* 10.0.0.1, the unspecified address 0.0.0.0, and 10.0.0.256, which does not parse.
IfaceTexts ==
    {<<Text_lo, to_string(<<255, 0, 0, 0>>)>>,
     <<Text_net, to_string(<<255, 255, 255, 0>>)>>,
     <<to_string(IpAddr_ANY), to_string(<<255, 0, 0, 0>>)>>,
     <<<<"1", "0", ".", "0", ".", "0", ".", "2", "5", "6">>, to_string(<<255, 255, 255, 0>>)>>}

\* A device without a capability and with a small MTU.
DummyDevice == [Device_default EXCEPT !.mtu = SmallMtu]

\* A device with a small MTU that carries the loopback capability.
SmallDevice ==
    [Device_default EXCEPT !.device_type = "Loopback", !.mtu = SmallMtu,
                           !.flags = NET_DEVICE_FLAG_LOOPBACK, !.ops = "Loopback"]

\* The devices handed to DeviceManager::register.
DeviceSpecs == {DummyDevice, SmallDevice}

NoCall == [op |-> "none"]

NoInput == [kind |-> "none"]

DeviceIndexes == 0..(Len(devices) - 1)

RECURSIVE CountIfaces(_)
CountIfaces(devs) ==
    IF Len(devs) = 0 THEN 0
    ELSE Len(devs[Len(devs)].ifaces) + CountIfaces(SubSeq(devs, 1, Len(devs) - 1))

(***************************************************************************)
(* The calls of the public interface, one action each.                     *)
(***************************************************************************)
\* DeviceManager::register(dev)
RegisterDevice ==
    /\ Len(devices) < MaxDevices
    /\ \E dev \in DeviceSpecs :
          LET reg == DeviceManager_register(devices, dev)
          IN  /\ devices' = reg.devices
              /\ last' = [op |-> "register", result |-> reg.result]
    /\ UNCHANGED <<protocols, ip_ifaces, next_id, inp>>

\* device::loopback::init(devices, callback)
LoopbackInit ==
    /\ Len(devices) < MaxDevices
    /\ LET reg == loopback_init(devices)
       IN  /\ devices' = reg.devices
           /\ last' = [op |-> "loopback_init", result |-> reg.result]
    /\ UNCHANGED <<protocols, ip_ifaces, next_id, inp>>

\* Device::open on devices.get_mut(i)
OpenDevice ==
    /\ \E i \in DeviceIndexes :
          LET r == Device_open(devices[i + 1])
          IN  /\ devices' = [devices EXCEPT ![i + 1] = r.dev]
              /\ last' = [op |-> "open", dev |-> i, result |-> r.result, calls |-> r.calls]
    /\ UNCHANGED <<protocols, ip_ifaces, next_id, inp>>

\* Device::close on devices.get_mut(i)
CloseDevice ==
    /\ \E i \in DeviceIndexes :
          LET r == Device_close(devices[i + 1])
          IN  /\ devices' = [devices EXCEPT ![i + 1] = r.dev]
              /\ last' = [op |-> "close", dev |-> i, result |-> r.result, calls |-> r.calls]
    /\ UNCHANGED <<protocols, ip_ifaces, next_id, inp>>

\* DeviceManager::run
RunAll ==
    /\ LET r == DeviceManager_run(devices)
       IN  /\ devices' = r.devices
           /\ last' = [op |-> "run", result |-> r.result]
    /\ UNCHANGED <<protocols, ip_ifaces, next_id, inp>>

\* DeviceManager::shutdown
ShutdownAll ==
    /\ LET r == DeviceManager_shutdown(devices)
       IN  /\ devices' = r.devices
           /\ last' = [op |-> "shutdown", result |-> r.result]
    /\ UNCHANGED <<protocols, ip_ifaces, next_id, inp>>

\* IpIface::new(unicast, netmask, index)? then Device::register_iface(NetIface::Ip(..))
AttachIface ==
    /\ \E i \in DeviceIndexes, t \in IfaceTexts :
          LET made == IpIface_new(t[1], t[2], i)
              r == IF made.ok THEN Device_register_iface(devices[i + 1], NetIface_Ip(made.v))
                   ELSE [dev |-> devices[i + 1], result |-> made]
          IN  /\ devices' = [devices EXCEPT ![i + 1] = r.dev]
              /\ last' = [op |-> "Device_register_iface", dev |-> i, unicast |-> t[1],
                          netmask |-> t[2], before |-> devices[i + 1].ifaces,
                          result |-> r.result]
    /\ UNCHANGED <<protocols, ip_ifaces, next_id, inp>>

\* ip::register_iface(dev, unicast, netmask, ctx)
RegisterIface ==
    /\ CountIfaces(devices) < MaxIfaces
    /\ \E i \in DeviceIndexes, t \in IfaceTexts :
          LET r == ip_register_iface(devices[i + 1], t[1], t[2], ip_ifaces)
          IN  /\ devices' = [devices EXCEPT ![i + 1] = r.dev]
              /\ ip_ifaces' = r.ip_ifaces
              /\ last' = [op |-> "ip_register_iface", dev |-> i, unicast |-> t[1],
                          netmask |-> t[2], before |-> devices[i + 1].ifaces,
                          result |-> r.result]
    /\ UNCHANGED <<protocols, next_id, inp>>

\* ProtocolManager::init, which is ip::init: register(ProtocolType::Ip, ip_input_handler)
InitProtocols ==
    /\ LET r == ProtocolManager_register(protocols, ProtocolType_Ip, "ip_input_handler")
       IN  /\ protocols' = (IF r.ok THEN r.v ELSE protocols)
           /\ last' = [op |-> "protocol_init", result |-> IF r.ok THEN Ok(<<>>) ELSE r]
    /\ UNCHANGED <<devices, ip_ifaces, next_id, inp>>

\* Device::output(device_type, data, dst) on devices.get(i)
OutputDevice ==
    /\ \E i \in DeviceIndexes, data \in OutputData, td \in OutputTypeAndDst :
          last' = [op |-> "output", dev |-> i, type_ |-> td[1], data |-> data, dst |-> td[2],
                   out |-> Device_output(devices, protocols, devices[i + 1], td[1], data, td[2])]
    /\ UNCHANGED <<devices, protocols, ip_ifaces, next_id, inp>>

\* ip_output(protocol, payload, src, dst, ctx, devices); id is what random16() gave.
\* A plausible slip: a send that fails takes the first device down.
OutputIp_downs_device ==
    /\ \E protocol \in {IpProtocol_from_u8(1), IpProtocol_from_u8(17)},
          payload \in {EchoMessage, LongPayload},
          src \in {IpAddr_ANY, Addr_lo, Addr_net},
          dst \in {Addr_lo, Addr_far} :
          LET out == ip_output(protocol, payload, src, dst, 1, ip_ifaces, devices, protocols)
          IN  /\ last' = [op |-> "ip_output", protocol |-> protocol, payload |-> payload,
                          src |-> src, dst |-> dst, id |-> 1, out |-> out]
              /\ devices' = IF out.result.ok THEN devices
                            ELSE [devices EXCEPT ![1].flags = (devices[1].flags \div 2) * 2]
    /\ UNCHANGED <<protocols, ip_ifaces, next_id, inp>>

OutputIp ==
    /\ \E protocol \in {IpProtocol_from_u8(1), IpProtocol_from_u8(17)},
          payload \in {EchoMessage, LongPayload},
          src \in {IpAddr_ANY, Addr_lo, Addr_net},
          dst \in {Addr_lo, Addr_far} :
          last' = [op |-> "ip_output", protocol |-> protocol, payload |-> payload,
                   src |-> src, dst |-> dst, id |-> 1,
                   out |-> ip_output(protocol, payload, src, dst, 1,
                                     ip_ifaces, devices, protocols)]
    /\ UNCHANGED <<devices, protocols, ip_ifaces, next_id, inp>>

(***************************************************************************)
(* The device layer and the dispatch path under it: devices are            *)
(* registered, opened and closed, the IP handler registered, and buffers  *)
(* handed to Device::output.                                               *)
(***************************************************************************)
Init ==
    /\ devices = <<>>
    /\ protocols = <<>>
    /\ ip_ifaces = <<>>
    /\ next_id = 1
    /\ inp = NoInput
    /\ last = NoCall

Next ==
    \/ RegisterDevice
    \/ LoopbackInit
    \/ OpenDevice
    \/ CloseDevice
    \/ RunAll
    \/ ShutdownAll
    \/ InitProtocols
    \/ OutputDevice

Spec == Init /\ [][Next]_vars

(***************************************************************************)
(* The IP layer over a loopback device and a small device: interfaces are  *)
(* registered with ip::register_iface, the devices opened and closed, and  *)
(* payloads handed to ip_output.                                           *)
(***************************************************************************)
InitIp ==
    /\ devices = DeviceManager_register(loopback_init(<<>>).devices, SmallDevice).devices
    /\ protocols = ProtocolManager_register(<<>>, ProtocolType_Ip, "ip_input_handler").v
    /\ ip_ifaces = <<>>
    /\ next_id = 1
    /\ inp = NoInput
    /\ last = NoCall

NextIp ==
    \/ RegisterIface
    \/ OpenDevice
    \/ CloseDevice
    \/ OutputIp

SpecIp == InitIp /\ [][NextIp]_vars

(***************************************************************************)
(* Properties of the device layer, checked under Spec.                     *)
(***************************************************************************)
\* The device the last Device::output call was made on.
OutputTarget == devices[last.dev + 1]

\* C4: Device::output with a payload longer than the device's MTU returns an
\* error and makes no call of the transmit capability, whether the device is
\* up or down, whatever the protocol type and the link destination.
C4_OverMtuNeverTransmits ==
    (last.op = "output" /\ Len(last.data) > OutputTarget.mtu)
        => /\ ~last.out.result.ok
           /\ last.out.transmits = <<>>
           /\ last.out.dispatches = <<>>

\* C4 happens: an over-long payload was refused on a device that is up and
\* carries a transmit capability.
C4_Witness ==
    /\ last.op = "output"
    /\ Len(last.data) > OutputTarget.mtu
    /\ is_up(OutputTarget)
    /\ OutputTarget.ops = "Loopback"
    /\ last.out.result = Err("PayloadTooLarge")

\* C5: for a registered device and a payload no longer than its MTU, every
\* step keeps to the scenario: Device::output fails with not-up and transmits
\* nothing exactly while the device is down and succeeds while it is up; a
\* successful open takes the device from down to up, a successful close from
\* up to down, and nothing else changes whether it is up (DeviceManager::run
\* and ::shutdown are loops of open and of close).
C5_OutputFollowsOpenAndClose ==
    [][\A i \in DeviceIndexes :
          LET before == devices[i + 1]
              after == devices'[i + 1]
          IN  /\ (is_up(before) # is_up(after))
                    => \/ last'.op \in {"open", "close"} /\ last'.dev = i /\ last'.result.ok
                       \/ last'.op = "run" /\ is_up(after)
                       \/ last'.op = "shutdown" /\ ~is_up(after)
              /\ (last'.op = "open" /\ last'.dev = i /\ last'.result.ok)
                    => (~is_up(before) /\ is_up(after))
              /\ (last'.op = "close" /\ last'.dev = i /\ last'.result.ok)
                    => (is_up(before) /\ ~is_up(after))
              /\ (last'.op = "open" /\ last'.dev = i /\ ~is_up(before)) => last'.result.ok
              /\ (last'.op = "close" /\ last'.dev = i /\ is_up(before)) => last'.result.ok
              /\ (last'.op = "output" /\ last'.dev = i /\ Len(last'.data) <= before.mtu)
                    => IF is_up(before) THEN last'.out.result.ok
                       ELSE /\ last'.out.result = Err("NotUp")
                            /\ last'.out.transmits = <<>>]_vars

\* C5 happens: after an open, an IP payload within the MTU went out through the
\* transmit capability of a device.
C5_Witness ==
    /\ last.op = "output"
    /\ last.type_ = PROTOCOL_TYPE_IP
    /\ Len(last.data) <= OutputTarget.mtu
    /\ is_up(OutputTarget)
    /\ last.out.result.ok
    /\ Len(last.out.transmits) = 1

\* The one transmit call C6 speaks of: same protocol type, payload, destination.
SameTransmit ==
    /\ Len(last.out.transmits) = 1
    /\ last.out.transmits[1].dev = last.dev
    /\ last.out.transmits[1].type_ = last.type_
    /\ last.out.transmits[1].data = last.data
    /\ last.out.transmits[1].dst = last.dst

\* C6 as stated: Device::output on a device that is up, with a payload within
\* the MTU, calls transmit exactly once with the same protocol type, payload
\* and link destination, and returns Ok only if that call happened.
C6_Original ==
    (last.op = "output" /\ is_up(OutputTarget) /\ Len(last.data) <= OutputTarget.mtu)
        => /\ SameTransmit
           /\ last.out.result.ok => Len(last.out.transmits) = 1

\* C6 amended: on a device that is up and carries a transmit capability, with a
\* payload within the MTU, Device::output calls transmit exactly once with the
\* same protocol type, payload and link destination, and returns Ok only with
\* that call made; on a device that is up and carries no capability it returns
\* Ok and calls nothing.
C6_TransmitOnceWhenCapable ==
    (last.op = "output" /\ is_up(OutputTarget) /\ Len(last.data) <= OutputTarget.mtu)
        => IF OutputTarget.ops # "None"
           THEN SameTransmit
           ELSE last.out = OutputOutcome(Ok(<<>>), <<>>, <<>>)

\* C6 happens: a payload with a link destination went out once through the
\* capability of a device that is up.
C6_Witness ==
    /\ last.op = "output"
    /\ is_up(OutputTarget)
    /\ OutputTarget.ops = "Loopback"
    /\ Len(last.data) <= OutputTarget.mtu
    /\ last.dst = Some(HwBroadcast)
    /\ SameTransmit

(***************************************************************************)
(* Properties of ip_output over the registry and the devices, checked      *)
(* under SpecIp.                                                           *)
(***************************************************************************)
\* C3: ip_output with source 0.0.0.0 returns the no-route error for every
\* protocol, payload, destination, registry content and device state; the
\* interface registry is not consulted and no transmit capability is invoked.
C3_AnySourceNoRoute ==
    (last.op = "ip_output" /\ last.src = IpAddr_ANY)
        => /\ last.out.result = Err("NoRoute")
           /\ last.out.selects = 0
           /\ last.out.transmits = <<>>
           /\ last.out.dispatches = <<>>

\* C3 happens: the call was refused although the registry holds an interface
\* whose address is 0.0.0.0, on a device that is up and reaches the destination.
C3_Witness ==
    /\ last.op = "ip_output"
    /\ last.src = IpAddr_ANY
    /\ \E k \in 1..Len(ip_ifaces) :
          /\ ip_ifaces[k].unicast = IpAddr_ANY
          /\ is_up(devices[ip_ifaces[k].device_index + 1])
          /\ Len(last.payload) + IP_HDR_SIZE_MIN <= devices[ip_ifaces[k].device_index + 1].mtu

(***************************************************************************)
(* The checksum primitive on its own: a buffer is drawn, its checksum      *)
(* field filled or its checksum verified, and one byte of a buffer that    *)
(* verifies is then replaced.                                              *)
(***************************************************************************)
\* The byte values the drawn buffers are made of.
ByteSample == {0, 1, 128, 255}

\* The values a corrupted byte is replaced by.
CorruptValues == {0, 1, 2, 127, 128, 254, 255}

\* Short buffers over the sample, the two checksummed parts of TEST_ICMP_PACKET,
\* and an echo message with an odd trailing byte.
CksumBuffers ==
    {b \in SeqsUpTo(ByteSample, MaxBufLen) : Len(b) >= 2}
        \cup {Slice(TEST_ICMP_PACKET, 0, 20), Slice(TEST_ICMP_PACKET, 20, 48),
              Append(EchoMessage, 7)}

EvenOffsets(b) == {k \in 0..(Len(b) - 2) : k % 2 = 0}

InitCksum ==
    /\ devices = <<>>
    /\ protocols = <<>>
    /\ ip_ifaces = <<>>
    /\ next_id = 1
    /\ last = NoCall
    /\ \/ \E b \in CksumBuffers : \E off \in EvenOffsets(b) :
             inp = [kind |-> "fill", data |-> b, off |-> off]
       \/ \E b \in CksumBuffers : inp = [kind |-> "verify", data |-> b]

\* The checksum field of the buffer is filled and the result verified.
FillChecksum ==
    /\ last = NoCall
    /\ inp.kind = "fill"
    /\ LET filled == fill_checksum(inp.data, inp.off)
       IN  last' = [op |-> "fill", data |-> inp.data, off |-> inp.off, buf |-> filled,
                    sum |-> cksum16(filled, 0)]
    /\ UNCHANGED <<devices, protocols, ip_ifaces, next_id, inp>>

\* cksum16(&data, 0) of the buffer as it is.
VerifyChecksum ==
    /\ last = NoCall
    /\ inp.kind = "verify"
    /\ last' = [op |-> "cksum16", buf |-> inp.data, sum |-> cksum16(inp.data, 0)]
    /\ UNCHANGED <<devices, protocols, ip_ifaces, next_id, inp>>

\* One byte of a buffer whose checksum is 0 is replaced and cksum16 called again.
CorruptByte ==
    /\ last.op \in {"fill", "cksum16"}
    /\ last.sum = 0
    /\ \E pos \in 1..Len(last.buf), value \in CorruptValues :
          /\ value # last.buf[pos]
          /\ last' = [op |-> "corrupt", before |-> last.buf, pos |-> pos, value |-> value,
                      buf |-> Replace(last.buf, pos, value),
                      sum |-> cksum16(Replace(last.buf, pos, value), 0)]
    /\ UNCHANGED <<devices, protocols, ip_ifaces, next_id, inp>>

NextCksum ==
    \/ FillChecksum
    \/ VerifyChecksum
    \/ CorruptByte

SpecCksum == InitCksum /\ [][NextCksum]_vars

\* C8: for every buffer whose 16-bit checksum field, at an even offset, is
\* zeroed and then filled big-endian with cksum16 of the buffer, cksum16 of the
\* resulting buffer with init 0 is 0.
C8_FilledChecksumVerifies ==
    (last.op = "fill" /\ last.off % 2 = 0)
        => /\ last.sum = 0
           /\ \A k \in 1..Len(last.buf) :
                 k \notin {last.off + 1, last.off + 2} => last.buf[k] = last.data[k]

\* C8 happens: the header of TEST_ICMP_PACKET got its checksum 0xbd4a back.
C8_Witness ==
    /\ last.op = "fill"
    /\ last.data = Slice(TEST_ICMP_PACKET, 0, 20)
    /\ last.off = 10
    /\ last.buf = last.data
    /\ <<last.buf[11], last.buf[12]>> = <<189, 74>>

\* C9: for every buffer whose checksum is 0, replacing any single byte by any
\* different value makes cksum16 of the buffer nonzero.
C9_CorruptionDetected ==
    (last.op = "corrupt" /\ cksum16(last.before, 0) = 0 /\ last.buf # last.before)
        => last.sum # 0

\* C9 happens: the odd trailing byte of a checksummed buffer was replaced.
C9_Witness ==
    /\ last.op = "corrupt"
    /\ cksum16(last.before, 0) = 0
    /\ Len(last.before) % 2 = 1
    /\ last.pos = Len(last.before)
    /\ last.buf[last.pos] # last.before[last.pos]

(***************************************************************************)
(* The text form of IpAddr on its own: a text is drawn and parsed, the     *)
(* address formatted again; an address is drawn and formatted, the text    *)
(* parsed again.                                                           *)
(***************************************************************************)
\* The texts an octet is written as: canonical, with a leading zero, with a
\* sign, out of range, empty.
OctetTexts ==
    {<<"0">>, <<"9">>, <<"1", "0">>, <<"2", "5", "5">>, <<"0", "1">>, <<"+", "1">>,
     <<"2", "5", "6">>, <<>>}

\* The values the octets of a drawn address take.
OctetValues == {0, 1, 9, 10, 99, 100, 255}

Dotted(parts) == parts[1] \o <<".">> \o parts[2] \o <<".">> \o parts[3] \o <<".">> \o parts[4]

\* Four octet texts joined by dots, and texts of three and of five parts.
AddrTexts ==
    {Dotted(q) : q \in OctetTexts \X OctetTexts \X OctetTexts \X OctetTexts}
        \cup {<<"1", ".", "2", ".", "3">>, <<"1", ".", "2", ".", "3", ".", "4", ".", "5">>}

AddrValues == OctetValues \X OctetValues \X OctetValues \X OctetValues

InitAddr ==
    /\ devices = <<>>
    /\ protocols = <<>>
    /\ ip_ifaces = <<>>
    /\ next_id = 1
    /\ last = NoCall
    /\ \/ \E t \in AddrTexts : inp = [kind |-> "text", text |-> t]
       \/ \E a \in AddrValues : inp = [kind |-> "addr", addr |-> a]

\* IpAddr::from_str(s), and IpAddr::to_string of the address when it parsed.
ParseAddr ==
    /\ last = NoCall
    /\ inp.kind = "text"
    /\ LET parsed == from_str(inp.text)
       IN  last' = [op |-> "from_str", text |-> inp.text, result |-> parsed,
                    back |-> IF parsed.ok THEN to_string(parsed.v) ELSE <<>>]
    /\ UNCHANGED <<devices, protocols, ip_ifaces, next_id, inp>>

\* IpAddr::to_string(a), and IpAddr::from_str of the text.
FormatAddr ==
    /\ last = NoCall
    /\ inp.kind = "addr"
    /\ last' = [op |-> "to_string", addr |-> inp.addr, text |-> to_string(inp.addr),
                back |-> from_str(to_string(inp.addr))]
    /\ UNCHANGED <<devices, protocols, ip_ifaces, next_id, inp>>

NextAddr ==
    \/ ParseAddr
    \/ FormatAddr

SpecAddr == InitAddr /\ [][NextAddr]_vars

\* A decimal octet 0-255: one or more digits, no sign, whose value is at most 255.
IsDecimalOctet(part) ==
    /\ Len(part) > 0
    /\ \A k \in 1..Len(part) : IsDigit(part[k])
    /\ DecimalValue(part) <= 255

\* A dotted-quad string of four decimal octets 0-255.
IsDottedQuad(s) ==
    /\ Len(split(s, ".")) = 4
    /\ \A k \in 1..4 : IsDecimalOctet(split(s, ".")[k])

\* C10: IpAddr parse and format are exact inverses: from_str(to_string(a)) is a
\* for every address a, and to_string(from_str(s)) is s for every dotted-quad
\* string s of four decimal octets 0-255.
C10_ExactInverses ==
    /\ last.op = "to_string" => last.back = Ok(last.addr)
    /\ (last.op = "from_str" /\ IsDottedQuad(last.text))
          => (last.result.ok /\ last.back = last.text)

(***************************************************************************)
(* ip_input on its own: a device with or without an interface and a packet *)
(* buffer are drawn, and the buffer is handed to ip_input for that device. *)
(***************************************************************************)
\* vhl bytes: IPv4 with a 20-, 24- and 16-byte header, version 6, and a header
\* length of 60 bytes that the buffer does not hold.
InputVhls == {69, 70, 68, 101, 79}

\* offset fields: none, MF, offset 1, DF, MF with every offset bit, the reserved bit.
InputOffsets == {0, 8192, 1, 16384, 16383, 32768}

InputProtocols == {1, 17}

InputDsts == {Addr_lo, Addr_lo_bcast, Addr_far, IpAddr_BROADCAST}

\* The total-length field: the buffer's length, one more, or 4 less than the
\* header length.
InputTotals == {"exact", "beyond", "short"}

\* A datagram from 127.0.0.1 carrying EchoMessage after hlen bytes of header,
\* with a header checksum that verifies or one that is off by one.
InputPacket(vhl, total, offset, protocol, dst, good) ==
    LET hlen == (vhl % 16) * 4
        body == (IF hlen > IP_HDR_SIZE_MIN THEN Zeros(hlen - IP_HDR_SIZE_MIN) ELSE <<>>)
                    \o EchoMessage
        len == IP_HDR_SIZE_MIN + Len(body)
        field == CASE total = "exact" -> len
                   [] total = "beyond" -> len + 1
                   [] OTHER -> hlen - 4
        raw == <<vhl, 0>> \o hton16(field) \o hton16(128) \o hton16(offset)
                   \o <<IP_TTL_DEFAULT, protocol, 0, 0>> \o Addr_lo \o dst \o body
        summed == IF hlen <= len
                  THEN fill_checksum(Slice(raw, 0, hlen), 10) \o Slice(raw, hlen, len)
                  ELSE raw
    IN  IF good THEN summed ELSE Replace(summed, 12, (summed[12] + 1) % 256)

\* The packets handed to ip_input, well-formed ones cut to 19 bytes, and
\* packets with a header of 24 bytes, of version 4 and 6, cut to 22 bytes.
InputPackets ==
    {InputPacket(q[1], q[2], q[3], q[4], q[5], q[6]) :
        q \in InputVhls \X InputTotals \X InputOffsets \X InputProtocols \X InputDsts \X BOOLEAN}
        \cup {Slice(InputPacket(69, "exact", o, 1, Addr_lo, TRUE), 0, IP_HDR_SIZE_MIN - 1) :
                 o \in InputOffsets}
        \cup {Slice(InputPacket(v, "exact", o, 1, Addr_lo, TRUE), 0, 22) :
                 v \in {70, 102}, o \in InputOffsets}

\* The loopback device without an interface, with 127.0.0.1/8, with 10.0.0.1/24.
InputConfigs ==
    LET base == loopback_init(<<>>).devices[1]
    IN  {[dev |-> base, ip_ifaces |-> <<>>]}
            \cup {[dev |-> ip_register_iface(base, t[1], t[2], <<>>).dev,
                   ip_ifaces |-> ip_register_iface(base, t[1], t[2], <<>>).ip_ifaces] :
                     t \in {u \in IfaceTexts : u[1] \in {Text_lo, Text_net}}}

InitIpInput ==
    /\ protocols = ProtocolManager_register(<<>>, ProtocolType_Ip, "ip_input_handler").v
    /\ next_id = 1
    /\ last = NoCall
    /\ \E c \in InputConfigs : devices = <<c.dev>> /\ ip_ifaces = c.ip_ifaces
    /\ \E data \in InputPackets : inp = [kind |-> "packet", data |-> data]

\* ip_input(data, dev, ctx) for the device of the state.
InputIp ==
    /\ last = NoCall
    /\ inp.kind = "packet"
    /\ last' = [op |-> "ip_input", data |-> inp.data, dev |-> 0,
                out |-> ip_input(inp.data, devices[1])]
    /\ UNCHANGED <<devices, protocols, ip_ifaces, next_id, inp>>

NextIpInput == InputIp

SpecIpInput == InitIpInput /\ [][NextIpInput]_vars

\* The more-fragments flag of the buffer: bit 13 of the big-endian offset field.
MoreFragments(data) == (data[7] \div 32) % 2 = 1

\* The 13-bit fragment-offset field of the buffer.
FragmentOffset(data) == (data[7] % 32) * 256 + data[8]

\* The buffer passes the length, version, header-length, checksum and
\* total-length gates.
PassesFirstFiveGates(data) ==
    /\ Len(data) >= 20
    /\ data[1] \div 16 = 4
    /\ Len(data) >= (data[1] % 16) * 4
    /\ cksum16(SubSeq(data, 1, (data[1] % 16) * 4), 0) = 0
    /\ Len(data) >= data[3] * 256 + data[4]

\* No interface of the device ip_input was called for accepts the destination.
NoInterfaceMatches(data) ==
    \A k \in 1..Len(devices[1].ifaces) :
        ~is_destination_match(devices[1].ifaces[k].ip, SubSeq(data, 17, 20))

\* C1 as stated: for every buffer with the more-fragments flag set or a nonzero
\* fragment offset, ip_input returns the fragmentation-unsupported error,
\* whatever the other fields, and nothing is dispatched.
C1_Original ==
    (/\ last.op = "ip_input"
     /\ Len(last.data) >= 8
     /\ (MoreFragments(last.data) \/ FragmentOffset(last.data) # 0))
        => /\ last.out.result = Err("FragmentationUnsupported")
           /\ last.out.consumer = "none"
           /\ last.out.icmp = <<>>

\* C1 amended: for every buffer that passes the length, version, header-length,
\* checksum and total-length gates and has the more-fragments flag set or a
\* nonzero fragment offset, ip_input returns the fragmentation-unsupported
\* error, whatever the destination and protocol, and nothing is dispatched.
C1_FragmentRejectedAfterGates ==
    (/\ last.op = "ip_input"
     /\ PassesFirstFiveGates(last.data)
     /\ (MoreFragments(last.data) \/ FragmentOffset(last.data) # 0))
        => /\ last.out.result = Err("FragmentationUnsupported")
           /\ last.out.consumer = "none"
           /\ last.out.icmp = <<>>

\* C1 happens: an ICMP datagram with only the more-fragments flag set, addressed
\* to an interface of the device, was rejected.
C1_Witness ==
    /\ last.op = "ip_input"
    /\ PassesFirstFiveGates(last.data)
    /\ last.data[1] = 69
    /\ MoreFragments(last.data)
    /\ FragmentOffset(last.data) = 0
    /\ ~NoInterfaceMatches(last.data)
    /\ last.data[10] = 1
    /\ last.out.result = Err("FragmentationUnsupported")

\* C2: a packet that passes the length, version, header-length, checksum,
\* total-length and fragmentation gates and whose destination matches none of
\* the interfaces of the originating device makes ip_input return Ok without
\* invoking a protocol consumer: icmp::input is not called.
C2_UnmatchedSilentlyDropped ==
    (/\ last.op = "ip_input"
     /\ PassesFirstFiveGates(last.data)
     /\ ~MoreFragments(last.data)
     /\ FragmentOffset(last.data) = 0
     /\ NoInterfaceMatches(last.data))
        => /\ last.out.result = Ok(<<>>)
           /\ last.out.consumer = "none"
           /\ last.out.icmp = <<>>

\* C2 happens: an ICMP datagram for 127.0.0.1 arrived at a device whose only
\* interface is 10.0.0.1/24 and was dropped.
C2_Witness ==
    /\ last.op = "ip_input"
    /\ PassesFirstFiveGates(last.data)
    /\ ~MoreFragments(last.data)
    /\ FragmentOffset(last.data) = 0
    /\ last.data[1] = 69
    /\ Len(devices[1].ifaces) = 1
    /\ NoInterfaceMatches(last.data)
    /\ last.data[10] = 1
    /\ SubSeq(last.data, 17, 20) = Addr_lo
    /\ last.out.result = Ok(<<>>)

(***************************************************************************)
(* ip_output on its own: the loopback device with 127.0.0.1/8 and a small  *)
(* device with 10.0.0.1/24, both up; the arguments of one call are drawn.  *)
(***************************************************************************)
OutputProtocols == {1, 6, 17, 253}

OutputPayloads == {<<>>, <<1, 2, 3>>, EchoMessage, LongPayload}

\* The values random16() is taken to return.
OutputIds == {0, 1, 4660, 65535}

OutputSrcs == {IpAddr_ANY, Addr_lo, Addr_net, Addr_far}

OutputDsts == {Addr_lo, Addr_lo_peer, Addr_net_bcast, Addr_far, IpAddr_BROADCAST}

\* The state after loopback::init, DeviceManager::register of a small device,
\* Device::open on both, ip::register_iface(dev, "127.0.0.1", "255.0.0.0") on the
\* loopback and ip::register_iface(dev, "10.0.0.1", "255.255.255.0") on the other.
OutputConfig ==
    LET registered == DeviceManager_register(loopback_init(<<>>).devices, SmallDevice).devices
        lo == IpIface_of(Addr_lo, <<255, 0, 0, 0>>, 0)
        net == IpIface_of(Addr_net, <<255, 255, 255, 0>>, 1)
    IN  [devices |-> <<[Device_open(registered[1]).dev EXCEPT !.ifaces = <<NetIface_Ip(lo)>>],
                       [Device_open(registered[2]).dev EXCEPT !.ifaces = <<NetIface_Ip(net)>>]>>,
         ip_ifaces |-> <<lo, net>>]

InitIpOutput ==
    /\ devices = OutputConfig.devices
    /\ ip_ifaces = OutputConfig.ip_ifaces
    /\ protocols = ProtocolManager_register(<<>>, ProtocolType_Ip, "ip_input_handler").v
    /\ next_id = 1
    /\ last = NoCall
    /\ \E q \in OutputProtocols \X OutputPayloads \X OutputIds \X OutputSrcs \X OutputDsts :
          inp = [kind |-> "ip_output", protocol |-> IpProtocol_from_u8(q[1]),
                 payload |-> q[2], id |-> q[3], src |-> q[4], dst |-> q[5]]

\* ip_output(protocol, payload, src, dst, ctx, devices) with the drawn arguments.
OutputIpDrawn ==
    /\ last = NoCall
    /\ inp.kind = "ip_output"
    /\ last' = [op |-> "ip_output", protocol |-> inp.protocol, payload |-> inp.payload,
                src |-> inp.src, dst |-> inp.dst, id |-> inp.id,
                out |-> ip_output(inp.protocol, inp.payload, inp.src, inp.dst, inp.id,
                                  ip_ifaces, devices, protocols)]
    /\ UNCHANGED <<devices, protocols, ip_ifaces, next_id, inp>>

NextIpOutput == OutputIpDrawn

SpecIpOutput == InitIpOutput /\ [][NextIpOutput]_vars

\* C7: for every protocol number, payload, identifier, source and destination
\* that ip_output accepts, the packet build_packet assembled passes ip_input's
\* length, version, header-length, checksum, total-length and fragmentation
\* gates, and the bytes from header length to total length are the payload
\* given to ip_output.
C7_OutputRoundTripsThroughInput ==
    (last.op = "ip_output" /\ last.out.result.ok)
        => LET packet == last.out.packet
           IN  /\ PassesFirstFiveGates(packet)
               /\ ~MoreFragments(packet)
               /\ FragmentOffset(packet) = 0
               /\ \A i \in DeviceIndexes :
                     ip_input(packet, devices[i + 1]).gate \in {"NoMatch", "Dispatched"}
               /\ Slice(packet, IpHdr_hdr_len(packet), ntoh16(IpHdr_total(packet)))
                     = last.payload

\* C7 happens: a payload of odd length with protocol 253 and identifier 65535
\* went out through the small device.
C7_Witness ==
    /\ last.op = "ip_output"
    /\ last.out.result.ok
    /\ last.payload = <<1, 2, 3>>
    /\ last.protocol.v = 253
    /\ last.id = 65535
    /\ last.src = Addr_net
    /\ Len(last.out.transmits) = 1
    /\ last.out.transmits[1].data = last.out.packet

(***************************************************************************)
(* The interface registry on its own: interfaces are handed to register    *)
(* and addresses looked up with select.                                    *)
(***************************************************************************)
\* The addresses looked up in the registry.
SelectAddrs == {Addr_lo, Addr_net, IpAddr_ANY, Addr_far}

\* The interfaces handed to IpIfaceRegistry::register: two addresses, each with
\* two netmasks and on two devices, and the unspecified address.
RegistryIfaces ==
    {IpIface_of(Addr_lo, <<255, 0, 0, 0>>, 0), IpIface_of(Addr_lo, <<255, 255, 255, 0>>, 1),
     IpIface_of(Addr_net, <<255, 255, 255, 0>>, 1), IpIface_of(Addr_net, <<255, 0, 0, 0>>, 0),
     IpIface_of(IpAddr_ANY, <<255, 0, 0, 0>>, 0)}

\* ctx.ip_ifaces.register(iface)
RegistryRegister ==
    /\ \E iface \in RegistryIfaces :
          LET r == IpIfaceRegistry_register(ip_ifaces, iface)
          IN  /\ ip_ifaces' = (IF r.ok THEN r.v ELSE ip_ifaces)
              /\ last' = [op |-> "registry_register", iface |-> iface, before |-> ip_ifaces,
                          result |-> IF r.ok THEN Ok(<<>>) ELSE r]
    /\ UNCHANGED <<devices, protocols, next_id, inp>>

\* ctx.ip_ifaces.select(addr)
RegistrySelect ==
    /\ \E addr \in SelectAddrs :
          last' = [op |-> "registry_select", addr |-> addr,
                   result |-> IpIfaceRegistry_select(ip_ifaces, addr)]
    /\ UNCHANGED <<devices, protocols, ip_ifaces, next_id, inp>>

InitRegistry ==
    /\ devices = <<>>
    /\ protocols = <<>>
    /\ ip_ifaces = <<>>
    /\ next_id = 1
    /\ inp = NoInput
    /\ last = NoCall

NextRegistry ==
    \/ RegistryRegister
    \/ RegistrySelect

SpecRegistry == InitRegistry /\ [][NextRegistry]_vars

(***************************************************************************)
(* Interface attachment: on a loopback device and a small device,          *)
(* interfaces are attached with Device::register_iface and with            *)
(* ip::register_iface.                                                     *)
(***************************************************************************)
InitIface ==
    /\ devices = DeviceManager_register(loopback_init(<<>>).devices, SmallDevice).devices
    /\ protocols = <<>>
    /\ ip_ifaces = <<>>
    /\ next_id = 1
    /\ inp = NoInput
    /\ last = NoCall

NextIface ==
    \/ AttachIface
    \/ RegisterIface

SpecIface == InitIface /\ [][NextIface]_vars

\* C11: after any sequence of Device::register_iface and ip::register_iface
\* calls every device carries at most one interface per address family, and an
\* attachment (whose addresses parse) to a device that already carries an IP
\* interface fails with the family-already-registered error and leaves the
\* interface list of the device as it was.
C11_OneIfacePerFamily ==
    /\ \A i \in DeviceIndexes :
          \A j, k \in 1..Len(devices[i + 1].ifaces) :
              j # k => NetIface_family(devices[i + 1].ifaces[j])
                           # NetIface_family(devices[i + 1].ifaces[k])
    /\ (/\ last.op \in {"Device_register_iface", "ip_register_iface"}
        /\ IsDottedQuad(last.unicast)
        /\ IsDottedQuad(last.netmask)
        /\ last.before # <<>>)
          => /\ last.result = Err("FamilyAlreadyRegistered")
             /\ devices[last.dev + 1].ifaces = last.before

\* The registry entries whose unicast address is addr.
EntriesFor(ifaces, addr) == {k \in 1..Len(ifaces) : ifaces[k].unicast = addr}

\* C12: the registry never holds two entries with one unicast address;
\* register of an address that is present fails with the duplicate-address
\* error and leaves the registry as it was, register of a new address appends
\* the entry; select(addr) returns the entry whose unicast address is addr when
\* there is one and none otherwise.
C12_RegistryUniqueAndSelect ==
    /\ \A j, k \in 1..Len(ip_ifaces) : j # k => ip_ifaces[j].unicast # ip_ifaces[k].unicast
    /\ last.op = "registry_register"
          => IF EntriesFor(last.before, last.iface.unicast) # {}
             THEN last.result = Err("DuplicateAddress") /\ ip_ifaces = last.before
             ELSE last.result.ok /\ ip_ifaces = Append(last.before, last.iface)
    /\ last.op = "registry_select"
          => IF EntriesFor(ip_ifaces, last.addr) # {}
             THEN /\ last.result.ok
                  /\ last.result.v.unicast = last.addr
                  /\ \E k \in 1..Len(ip_ifaces) : ip_ifaces[k] = last.result.v
             ELSE last.result = None

\* C12 happens: the registry holds two entries and a register call for
\* 127.0.0.1 with another netmask and device was refused.
C12_Witness ==
    /\ last.op = "registry_register"
    /\ Len(ip_ifaces) = 2
    /\ last.result = Err("DuplicateAddress")
    /\ \E k \in 1..Len(ip_ifaces) :
          ip_ifaces[k].unicast = last.iface.unicast /\ ip_ifaces[k] # last.iface

(***************************************************************************)
(* The protocol table on its own: handlers are registered for protocol     *)
(* types and buffers dispatched by their 16-bit type, for the loopback     *)
(* device with 127.0.0.1/8 and a small device with 10.0.0.1/24.            *)
(***************************************************************************)
\* The types handlers are registered for.
RegisteredTypes ==
    {ProtocolType_Ip, ProtocolType_Arp, ProtocolType_Unknown(4660),
     ProtocolType_Unknown(PROTOCOL_TYPE_IP)}

\* The handlers: ip_input_handler and a handler that does nothing.
Handlers == {"ip_input_handler", "stub_handler"}

\* The 16-bit types buffers are dispatched with.
DispatchTypes == {PROTOCOL_TYPE_IP, PROTOCOL_TYPE_ARP, PROTOCOL_TYPE_IPV6, 4660}

DispatchData == {EchoPacket, <<1, 2, 3>>}

\* ProtocolManager::register(type_, handler)
RegisterProtocol ==
    /\ \E type_ \in RegisteredTypes, handler \in Handlers :
          LET r == ProtocolManager_register(protocols, type_, handler)
          IN  /\ protocols' = (IF r.ok THEN r.v ELSE protocols)
              /\ last' = [op |-> "protocol_register", type_ |-> type_, handler |-> handler,
                          before |-> protocols, result |-> IF r.ok THEN Ok(<<>>) ELSE r]
    /\ UNCHANGED <<devices, ip_ifaces, next_id, inp>>

\* ProtocolManager::dispatch(type_, data, dev, ctx) for devices.get(i)
DispatchProtocol ==
    /\ \E i \in DeviceIndexes, type_ \in DispatchTypes, data \in DispatchData :
          last' = [op |-> "dispatch", type_ |-> type_, data |-> data, dev |-> i,
                   invoked |-> ProtocolManager_dispatch(protocols, type_, data, devices[i + 1])]
    /\ UNCHANGED <<devices, protocols, ip_ifaces, next_id, inp>>

InitProtocol ==
    /\ devices = OutputConfig.devices
    /\ ip_ifaces = OutputConfig.ip_ifaces
    /\ protocols = <<>>
    /\ next_id = 1
    /\ inp = NoInput
    /\ last = NoCall

NextProtocol ==
    \/ RegisterProtocol
    \/ DispatchProtocol

SpecProtocol == InitProtocol /\ [][NextProtocol]_vars

\* The entries of a table for one protocol type.
HandlersFor(table, type_) == {k \in 1..Len(table) : table[k].type_ = type_}

\* C13: a register call for a type that has a handler fails with the
\* already-registered error and leaves the table, the existing handler
\* included, as it was; a register call for a new type appends the entry; so
\* after every step each type has at most one handler, and an entry of the
\* table, once made, is never changed or removed: the handler of a type is the
\* first one registered for it.
C13_FirstHandlerKept ==
    [][/\ \A j, k \in 1..Len(protocols') : j # k => protocols'[j].type_ # protocols'[k].type_
       /\ \A k \in 1..Len(protocols) : k <= Len(protocols') /\ protocols'[k] = protocols[k]
       /\ last'.op = "protocol_register"
             => IF HandlersFor(protocols, last'.type_) # {}
                THEN last'.result = Err("AlreadyRegistered") /\ protocols' = protocols
                ELSE /\ last'.result.ok
                     /\ protocols' = Append(protocols, [type_ |-> last'.type_,
                                                        handler |-> last'.handler])]_vars

\* C13 happens: a second handler for the IP type was refused while
\* ip_input_handler, registered first, stays in the table.
C13_Witness ==
    /\ last.op = "protocol_register"
    /\ last.type_ = ProtocolType_Ip
    /\ last.handler = "stub_handler"
    /\ last.result = Err("AlreadyRegistered")
    /\ \E k \in 1..Len(protocols) :
          protocols[k] = [type_ |-> ProtocolType_Ip, handler |-> "ip_input_handler"]

\* The entries of the table whose type has the 16-bit value v
\* (u16::from(ProtocolType)).
HandlersForValue(table, v) == {k \in 1..Len(table) : table[k].type_.v = v}

\* C14: ProtocolManager::dispatch invokes the handler registered for the type
\* (the ProtocolType its 16-bit argument converts to) exactly once, with the
\* bytes and the device it was given, and invokes nothing when no handler is
\* registered for the type.
C14_DispatchInvokesOnce ==
    last.op = "dispatch"
        => IF HandlersFor(protocols, ProtocolType_from(last.type_)) # {}
           THEN /\ Len(last.invoked) = 1
                /\ \E k \in HandlersFor(protocols, ProtocolType_from(last.type_)) :
                      last.invoked[1].handler = protocols[k].handler
                /\ last.invoked[1].data = last.data
                /\ last.invoked[1].dev = last.dev
                /\ last.invoked[1].type_ = last.type_
           ELSE last.invoked = <<>>

\* C14 happens: with ip_input_handler registered second in the table, an IP
\* datagram was dispatched to it and ip_input ran on it to the end.
C14_Witness ==
    /\ last.op = "dispatch"
    /\ last.type_ = PROTOCOL_TYPE_IP
    /\ Len(protocols) >= 2
    /\ protocols[2] = [type_ |-> ProtocolType_Ip, handler |-> "ip_input_handler"]
    /\ Len(last.invoked) = 1
    /\ last.invoked[1].handler = "ip_input_handler"
    /\ last.invoked[1].data = EchoPacket
    /\ last.invoked[1].outcome.gate = "Dispatched"

(***************************************************************************)
(* Properties of the device registry and of open and close, checked under  *)
(* Spec.                                                                   *)
(***************************************************************************)
\* The text "net<k>" for k below 10.
NetName(k) == <<"n", "e", "t", <<"0", "1", "2", "3", "4", "5", "6", "7", "8", "9">>[k + 1]>>

\* C15: DeviceManager::register, called directly or from loopback::init, never
\* fails; the k-th registration returns index k and stores the device under
\* that index with the name "net<k>"; no step changes the index or the name of
\* a device registered before it or removes a device, so an index is never
\* handed out twice.
C15_IndexesSequentialAndStable ==
    [][/\ \A i \in DeviceIndexes :
             /\ i < Len(devices')
             /\ devices'[i + 1].index = devices[i + 1].index
             /\ devices'[i + 1].name = devices[i + 1].name
       /\ \A i \in 0..(Len(devices') - 1) :
             devices'[i + 1].index = i /\ devices'[i + 1].name = NetName(i)
       /\ last'.op \in {"register", "loopback_init"}
             => /\ last'.result = Ok(Len(devices))
                /\ Len(devices') = Len(devices) + 1]_vars

\* C15 happens: the second registration returned index 1 and the device is
\* stored as net1 behind the loopback device net0.
C15_Witness ==
    /\ last.op = "register"
    /\ last.result = Ok(1)
    /\ Len(devices) = 2
    /\ devices[2].index = 1
    /\ devices[2].name = <<"n", "e", "t", "1">>
    /\ devices[1].device_type = "Loopback"
    /\ devices[1].name = <<"n", "e", "t", "0">>

\* Everything of a device but the up flag: the other flags, the MTU, the
\* attached interfaces and the rest of the record are the same.
SameButUp(before, after) ==
    /\ after.flags \div 2 = before.flags \div 2
    /\ after.mtu = before.mtu
    /\ after.ifaces = before.ifaces
    /\ after = [before EXCEPT !.flags = after.flags]

\* What C16 says of a Device::open or Device::close step on device i, but for
\* the capability calls.
OpenCloseStep(i, before, after) ==
    /\ (last'.op = "open" /\ last'.dev = i)
          => /\ (last'.result = Err("AlreadyUp")) <=> is_up(before)
             /\ is_up(before) => after = before
             /\ ~is_up(before) => (last'.result.ok /\ is_up(after))
             /\ SameButUp(before, after)
    /\ (last'.op = "close" /\ last'.dev = i)
          => /\ (last'.result = Err("NotUp")) <=> ~is_up(before)
             /\ ~is_up(before) => after = before
             /\ is_up(before) => (last'.result.ok /\ ~is_up(after))
             /\ SameButUp(before, after)

\* C16 as stated: open fails with already-up iff the device is up and otherwise
\* calls the open capability and sets the up flag; close fails with not-up iff
\* the device is down and otherwise calls the close capability and clears the
\* flag; nothing else of the device changes.
C16_Original ==
    [][\A i \in DeviceIndexes :
          /\ OpenCloseStep(i, devices[i + 1], devices'[i + 1])
          /\ (last'.op \in {"open", "close"} /\ last'.dev = i /\ last'.result.ok)
                => last'.calls = <<[op |-> last'.op, dev |-> i]>>]_vars

\* C16 amended: open fails with already-up iff the device is up and otherwise
\* sets the up flag, after one call of the open capability when the device
\* carries one and without any call when it carries none; close fails with
\* not-up iff the device is down and otherwise clears the flag, after one call
\* of the close capability when there is one; neither changes another flag,
\* the MTU or the interfaces, so successful opens and closes of a device
\* alternate, starting with open.
C16_OpenCloseWithOptionalCapability ==
    [][\A i \in DeviceIndexes :
          /\ OpenCloseStep(i, devices[i + 1], devices'[i + 1])
          /\ (last'.op \in {"open", "close"} /\ last'.dev = i)
                => last'.calls = IF last'.result.ok /\ devices[i + 1].ops # "None"
                                 THEN <<[op |-> last'.op, dev |-> i]>>
                                 ELSE <<>>]_vars

\* C16 happens: the loopback device was closed after an open, through its close
\* capability, and is down with its loopback flag and interfaces untouched.
C16_Witness ==
    /\ last.op = "close"
    /\ last.result.ok
    /\ last.calls = <<[op |-> "close", dev |-> last.dev]>>
    /\ devices[last.dev + 1].ops = "Loopback"
    /\ devices[last.dev + 1].flags = NET_DEVICE_FLAG_LOOPBACK

\* The devices, counted from 1, on which the open (wanted = FALSE) or the close
\* (wanted = TRUE) of a run or shutdown fails.
Refusing(devs, wanted) == {k \in 1..Len(devs) : is_up(devs[k]) # wanted}

\* The first position at which the loop stops: the first refusing device, or
\* one past the end.
StopsAt(devs, wanted) ==
    IF Refusing(devs, wanted) = {} THEN Len(devs) + 1
    ELSE CHOOSE k \in Refusing(devs, wanted) : \A j \in Refusing(devs, wanted) : k <= j

\* C17: DeviceManager::run opens and DeviceManager::shutdown closes the devices
\* in registration order; when the operation fails on a device its error is
\* returned, the devices before it have been opened (closed), and it and all
\* devices after it are as they were; when none fails, Ok is returned and all
\* are open (closed).
C17_RunAndShutdownStopAtFirstFailure ==
    [][/\ last'.op = "run"
             => LET k == StopsAt(devices, FALSE)
                IN  /\ Len(devices') = Len(devices)
                    /\ last'.result = IF k > Len(devices) THEN Ok(<<>>) ELSE Err("AlreadyUp")
                    /\ \A j \in 1..Len(devices) :
                          IF j < k
                          THEN is_up(devices'[j]) /\ SameButUp(devices[j], devices'[j])
                          ELSE devices'[j] = devices[j]
       /\ last'.op = "shutdown"
             => LET k == StopsAt(devices, TRUE)
                IN  /\ Len(devices') = Len(devices)
                    /\ last'.result = IF k > Len(devices) THEN Ok(<<>>) ELSE Err("NotUp")
                    /\ \A j \in 1..Len(devices) :
                          IF j < k
                          THEN ~is_up(devices'[j]) /\ SameButUp(devices[j], devices'[j])
                          ELSE devices'[j] = devices[j]]_vars

\* C17 happens: run failed on the second device, which was up already, after
\* opening the first one.
C17_Witness ==
    /\ last.op = "run"
    /\ last.result = Err("AlreadyUp")
    /\ Len(devices) = 2
    /\ is_up(devices[1])
    /\ is_up(devices[2])

\* C18: every successful Device::output on a device that is up and carries the
\* loopback capability causes exactly one call of ProtocolManager::dispatch,
\* with the protocol type and the bytes of the output call and the index of
\* the device itself; the handler registered for the type, if there is one,
\* has been invoked in that call and has returned when output returns.
C18_LoopbackReentersDispatch ==
    (/\ last.op = "output"
     /\ OutputTarget.ops = "Loopback"
     /\ is_up(OutputTarget)
     /\ last.out.result.ok)
        => /\ Len(last.out.dispatches) = 1
           /\ last.out.dispatches[1].type_ = last.type_
           /\ last.out.dispatches[1].data = last.data
           /\ last.out.dispatches[1].dev = last.dev
           /\ Len(last.out.dispatches[1].invoked)
                 = (IF HandlersForValue(protocols, last.type_) # {} THEN 1 ELSE 0)
           /\ \A k \in 1..Len(last.out.dispatches[1].invoked) :
                 /\ last.out.dispatches[1].invoked[k].data = last.data
                 /\ last.out.dispatches[1].invoked[k].dev = last.dev
                 /\ last.out.dispatches[1].invoked[k].outcome.gate
                        \in {"Length", "Version", "HeaderLength", "Checksum", "TotalLength",
                             "Fragmentation", "NoMatch", "PayloadSlice", "Dispatched"}

\* C18 happens: an IP datagram sent on the second device, a loopback device that
\* is up, came back through dispatch to ip_input_handler for that device.
C18_Witness ==
    /\ last.op = "output"
    /\ last.dev = 1
    /\ OutputTarget.ops = "Loopback"
    /\ last.type_ = PROTOCOL_TYPE_IP
    /\ last.out.result.ok
    /\ Len(last.out.dispatches) = 1
    /\ Len(last.out.dispatches[1].invoked) = 1
    /\ last.out.dispatches[1].invoked[1].handler = "ip_input_handler"
    /\ last.out.dispatches[1].invoked[1].dev = 1

(***************************************************************************)
(* End to end over the loopback device, as main.rs sets it up: the device  *)
(* carries 127.0.0.1/8 and is up, the IP handler is registered, and one    *)
(* drawn datagram is handed to Device::output.                             *)
(***************************************************************************)
\* ICMP types: echo reply, destination unreachable, echo, time exceeded, and a
\* type without a name.
LoopTypes == {0, 3, 8, 11, 42}

\* The bytes after the 8 bytes of the ICMP header.
LoopBodies == {<<>>, <<49>>, <<49, 50>>}

\* An ICMP message (identifier 128, sequence 1) with a checksum that verifies or
\* one that is off by one.
IcmpMessage(type_, body, good) ==
    LET summed == fill_checksum(<<type_, 0, 0, 0, 0, 128, 0, 1>> \o body, 2)
    IN  IF good THEN summed ELSE Replace(summed, 4, (summed[4] + 1) % 256)

\* The messages, and an echo cut to 4 bytes.
LoopMessages ==
    {IcmpMessage(q[1], q[2], q[3]) : q \in LoopTypes \X LoopBodies \X BOOLEAN}
        \cup {fill_checksum(<<8, 0, 0, 0>>, 2)}

\* A datagram from 127.0.0.1 with a header of hlen bytes (options are zeros),
\* the message, and extra bytes behind the total length.
LoopPacket(hlen, protocol, dst, message, extra) ==
    LET total == hlen + Len(message)
        raw == <<64 + (hlen \div 4), 0>> \o hton16(total) \o hton16(128) \o hton16(0)
                   \o <<IP_TTL_DEFAULT, protocol, 0, 0>> \o Addr_lo \o dst
                   \o Zeros(hlen - IP_HDR_SIZE_MIN)
    IN  fill_checksum(raw, 10) \o message \o Zeros(extra)

LoopPackets ==
    {LoopPacket(q[1], q[2], q[3], q[4], q[5]) :
        q \in {20, 24} \X {1, 17} \X {Addr_lo, Addr_lo_bcast, Addr_far} \X LoopMessages \X {0, 2}}
        \cup {TEST_ICMP_PACKET}

\* App::setup_loopback, ProtocolManager::init and DeviceManager::run.
LoopbackConfig ==
    LET dev == loopback_init(<<>>).devices[1]
        iface == NetIface_Ip(IpIface_of(Addr_lo, <<255, 0, 0, 0>>, 0))
    IN  DeviceManager_run(<<Device_register_iface(dev, iface).dev>>).devices

InitLoopback ==
    /\ devices = LoopbackConfig
    /\ protocols = ProtocolManager_register(<<>>, ProtocolType_Ip, "ip_input_handler").v
    /\ ip_ifaces = <<>>
    /\ next_id = 1
    /\ last = NoCall
    /\ \E data \in LoopPackets : inp = [kind |-> "packet", data |-> data]

\* App::send_test_packet: dev.output(PROTOCOL_TYPE_IP, data, None)
SendPacket ==
    /\ last = NoCall
    /\ inp.kind = "packet"
    /\ last' = [op |-> "output", dev |-> 0, type_ |-> PROTOCOL_TYPE_IP, data |-> inp.data,
                dst |-> None,
                out |-> Device_output(devices, protocols, devices[1], PROTOCOL_TYPE_IP,
                                      inp.data, None)]
    /\ UNCHANGED <<devices, protocols, ip_ifaces, next_id, inp>>

NextLoopback == SendPacket

SpecLoopback == InitLoopback /\ [][NextLoopback]_vars

\* The bytes of a datagram from its header length to its total length.
MessageOf(data) == SubSeq(data, (data[1] % 16) * 4 + 1, data[3] * 256 + data[4])

\* A well-formed unfragmented IPv4 datagram with protocol 1 that carries a
\* correctly checksummed ICMP message of at least 8 bytes.
WellFormedIcmpDatagram(data) ==
    /\ PassesFirstFiveGates(data)
    /\ (data[1] % 16) * 4 >= 20
    /\ ~MoreFragments(data)
    /\ FragmentOffset(data) = 0
    /\ data[10] = 1
    /\ data[3] * 256 + data[4] >= (data[1] % 16) * 4 + 8
    /\ cksum16(MessageOf(data), 0) = 0

\* C19: on the open loopback device with an interface whose unicast address is
\* the destination and with the IP handler registered, Device::output of a
\* well-formed ICMP datagram returns Ok after one dispatch to ip_input_handler,
\* in which the datagram passed every gate of ip_input, matched the interface,
\* and exactly the bytes from header length to total length went to
\* icmp::input, which accepted them and decoded the type, type 8 as Echo.
C19_EndToEndEcho ==
    (/\ last.op = "output"
     /\ last.type_ = PROTOCOL_TYPE_IP
     /\ OutputTarget.ops = "Loopback"
     /\ is_up(OutputTarget)
     /\ HandlersFor(protocols, ProtocolType_Ip) # {}
     /\ WellFormedIcmpDatagram(last.data)
     /\ \E k \in 1..Len(OutputTarget.ifaces) :
           OutputTarget.ifaces[k].ip.unicast = SubSeq(last.data, 17, 20))
        => /\ last.out.result.ok
           /\ Len(last.out.dispatches) = 1
           /\ Len(last.out.dispatches[1].invoked) = 1
           /\ LET ran == last.out.dispatches[1].invoked[1].outcome
              IN  /\ ran.result.ok
                  /\ ran.gate = "Dispatched"
                  /\ ran.matched
                  /\ ran.consumer = "Icmp"
                  /\ Len(ran.icmp) = 1
                  /\ ran.icmp[1].data = MessageOf(last.data)
                  /\ ran.icmp[1].outcome = "Decoded"
                  /\ MessageOf(last.data)[1] = 8 => ran.icmp[1].type = "Echo"

\* C19 happens: TEST_ICMP_PACKET went out on the loopback device and its 28
\* bytes of echo request were decoded.
C19_Witness ==
    /\ last.op = "output"
    /\ last.data = TEST_ICMP_PACKET
    /\ last.out.result.ok
    /\ Len(last.out.dispatches) = 1
    /\ Len(last.out.dispatches[1].invoked) = 1
    /\ Len(last.out.dispatches[1].invoked[1].outcome.icmp) = 1
    /\ Len(last.out.dispatches[1].invoked[1].outcome.icmp[1].data) = 28
    /\ last.out.dispatches[1].invoked[1].outcome.icmp[1].type = "Echo"

(***************************************************************************)
(* The total-length gate of ip_input, checked under SpecIpInput.           *)
(***************************************************************************)
\* C20: a buffer that passes the length, version, header-length and checksum
\* gates and whose total-length field is larger than the buffer is rejected
\* with the too-short error of the total-length gate, whatever its offset
\* field, protocol and destination, and nothing is dispatched.
C20_TotalLengthGate ==
    (/\ last.op = "ip_input"
     /\ Len(last.data) >= 20
     /\ last.data[1] \div 16 = 4
     /\ Len(last.data) >= (last.data[1] % 16) * 4
     /\ cksum16(SubSeq(last.data, 1, (last.data[1] % 16) * 4), 0) = 0
     /\ last.data[3] * 256 + last.data[4] > Len(last.data))
        => /\ last.out.result = Err("TooShortForTotalLength")
           /\ last.out.gate = "TotalLength"
           /\ last.out.consumer = "none"
           /\ last.out.icmp = <<>>

\* C20 happens: an ICMP datagram for an interface of the device, with the
\* more-fragments flag set and a total length one above the buffer's, was
\* rejected at the total-length gate.
C20_Witness ==
    /\ last.op = "ip_input"
    /\ last.data[1] = 69
    /\ last.data[3] * 256 + last.data[4] = Len(last.data) + 1
    /\ cksum16(SubSeq(last.data, 1, 20), 0) = 0
    /\ MoreFragments(last.data)
    /\ ~NoInterfaceMatches(last.data)
    /\ last.out.result = Err("TooShortForTotalLength")

(***************************************************************************)
(* The checks and the header of ip_output, checked under SpecIpOutput.     *)
(***************************************************************************)
\* The interface the registry holds for the source of the last ip_output call.
SelectedIface ==
    ip_ifaces[CHOOSE k \in EntriesFor(ip_ifaces, last.src) :
                  \A j \in EntriesFor(ip_ifaces, last.src) : k <= j]

\* The last call was an ip_output whose source selects an interface.
OutputSelects ==
    /\ last.op = "ip_output"
    /\ last.src # <<0, 0, 0, 0>>
    /\ EntriesFor(ip_ifaces, last.src) # {}

\* dst lies in the subnet of the interface or is 255.255.255.255.
Reachable(iface, dst) ==
    \/ [k \in 1..4 |-> BitAndByte(dst[k], iface.netmask[k])]
           = [k \in 1..4 |-> BitAndByte(iface.unicast[k], iface.netmask[k])]
    \/ dst = <<255, 255, 255, 255>>

\* C21: for a source that selects an interface, ip_output passes the
\* reachability check iff the destination lies in the subnet of the interface
\* or is 255.255.255.255; for every other destination it returns the
\* unreachable error, builds no packet and transmits nothing.
C21_ReachableIffSubnetOrBroadcast ==
    OutputSelects
        => IF Reachable(SelectedIface, last.dst)
           THEN last.out.result # Err("Unreachable")
           ELSE /\ last.out.result = Err("Unreachable")
                /\ last.out.packet = <<>>
                /\ last.out.transmits = <<>>

\* C21 happens: a payload for 255.255.255.255, outside the subnet of
\* 127.0.0.1/8, passed the check and went out on the loopback device.
C21_Witness ==
    /\ OutputSelects
    /\ last.src = Addr_lo
    /\ last.dst = IpAddr_BROADCAST
    /\ last.out.result.ok
    /\ Len(last.out.transmits) = 1

\* C22: for a source that selects an interface and a reachable destination,
\* ip_output returns the packet-too-large error and transmits nothing when
\* 20 + payload.len() exceeds the MTU of the device of the interface; when it
\* does not, the check passes and Device::output does not reject the packet
\* for its length.
C22_MtuCheckedBeforeSend ==
    (OutputSelects /\ Reachable(SelectedIface, last.dst))
        => IF 20 + Len(last.payload) > devices[SelectedIface.device_index + 1].mtu
           THEN /\ last.out.result = Err("PacketTooLarge")
                /\ last.out.packet = <<>>
                /\ last.out.transmits = <<>>
           ELSE /\ last.out.result # Err("PacketTooLarge")
                /\ last.out.result # Err("PayloadTooLarge")
                /\ Len(last.out.packet) = 20 + Len(last.payload)

\* C22 happens: a payload that fills the MTU of the small device exactly went
\* out on it.
C22_Witness ==
    /\ OutputSelects
    /\ last.src = Addr_net
    /\ 20 + Len(last.payload) = devices[SelectedIface.device_index + 1].mtu
    /\ last.out.result = Ok(20 + Len(last.payload))
    /\ Len(last.out.transmits) = 1

\* C23: the identification field of the header ip_output built is the value of
\* the identification counter of the context before the call, 1 for the first
\* call, and the call has advanced the counter by one.
C23_IdFromCounter ==
    (last.op = "ip_output" /\ Len(last.out.packet) >= 20)
        => /\ last.out.packet[5] * 256 + last.out.packet[6] = 1
           /\ next_id = 2

\* C24: the packet ip_output built starts with a 20-byte header with version 4
\* and header length 5, type of service 0, total length 20 + payload.len(),
\* the identifier, flags and offset 0, TTL 255, the protocol number, the
\* unicast address of the selected interface as source and the destination,
\* 16-bit fields high byte first, and a checksum that makes the Internet
\* checksum of the 20 bytes 0; the payload follows.
C24_HeaderFields ==
    (last.op = "ip_output" /\ last.out.packet # <<>>)
        => LET p == last.out.packet
           IN  /\ Len(p) = 20 + Len(last.payload)
               /\ p[1] = 4 * 16 + 5
               /\ p[2] = 0
               /\ <<p[3], p[4]>> = <<Len(p) \div 256, Len(p) % 256>>
               /\ <<p[5], p[6]>> = <<last.id \div 256, last.id % 256>>
               /\ <<p[7], p[8]>> = <<0, 0>>
               /\ p[9] = 255
               /\ p[10] = last.protocol.v
               /\ SubSeq(p, 13, 16) = SelectedIface.unicast
               /\ SubSeq(p, 17, 20) = last.dst
               /\ cksum16(SubSeq(p, 1, 20), 0) = 0
               /\ SubSeq(p, 21, Len(p)) = last.payload

\* C24 happens: a TCP payload of three bytes with identifier 4660 (0x1234) was
\* sent from 10.0.0.1 to the broadcast address of its subnet.
C24_Witness ==
    /\ last.op = "ip_output"
    /\ last.protocol.v = 6
    /\ last.payload = <<1, 2, 3>>
    /\ last.id = 4660
    /\ last.dst = Addr_net_bcast
    /\ Len(last.out.packet) = 23
    /\ SubSeq(last.out.packet, 3, 6) = <<0, 23, 18, 52>>
    /\ SubSeq(last.out.packet, 13, 16) = Addr_net

(***************************************************************************)
(* The link destination of the IP output path: the loopback device with    *)
(* 127.0.0.1/8 and a broadcast device that needs address resolution, with  *)
(* 10.0.0.1/24, both up; the arguments of one ip_output call are drawn.    *)
(***************************************************************************)
\* The hardware address lengths of the broadcast device: 6 bytes, and all 16.
LinkAddrLens == {6, NET_DEVICE_ADDR_LEN}

\* A device with the broadcast and needs-address-resolution flags, whose
\* broadcast hardware address is ff:ff:ff:ff:ff:ff followed by the bytes 1..10
\* of the array, and which carries a transmit capability.
ArpDevice(alen) ==
    [Device_default EXCEPT !.device_type = "Ethernet", !.mtu = 1500,
                           !.flags = NET_DEVICE_FLAG_BROADCAST + NET_DEVICE_FLAG_NEED_ARP,
                           !.alen = alen,
                           !.broadcast = HwBroadcast \o <<1, 2, 3, 4, 5, 6, 7, 8, 9, 10>>,
                           !.ops = "Loopback"]

\* The state after loopback::init, DeviceManager::register of the broadcast
\* device, DeviceManager::run, and ip::register_iface on both devices.
LinkConfig(alen) ==
    LET registered == DeviceManager_register(loopback_init(<<>>).devices, ArpDevice(alen)).devices
        opened == DeviceManager_run(registered).devices
        lo == IpIface_of(Addr_lo, <<255, 0, 0, 0>>, 0)
        net == IpIface_of(Addr_net, <<255, 255, 255, 0>>, 1)
    IN  [devices |-> <<[opened[1] EXCEPT !.ifaces = <<NetIface_Ip(lo)>>],
                       [opened[2] EXCEPT !.ifaces = <<NetIface_Ip(net)>>]>>,
         ip_ifaces |-> <<lo, net>>]

LinkDsts == {Addr_lo, Addr_lo_bcast, <<10, 0, 0, 2>>, Addr_net_bcast, IpAddr_BROADCAST}

InitIpLink ==
    /\ protocols = ProtocolManager_register(<<>>, ProtocolType_Ip, "ip_input_handler").v
    /\ next_id = 1
    /\ last = NoCall
    /\ \E alen \in LinkAddrLens :
          /\ devices = LinkConfig(alen).devices
          /\ ip_ifaces = LinkConfig(alen).ip_ifaces
    /\ \E q \in {1, 17} \X {<<>>, EchoMessage} \X {1, 4660} \X {Addr_lo, Addr_net} \X LinkDsts :
          inp = [kind |-> "ip_output", protocol |-> IpProtocol_from_u8(q[1]),
                 payload |-> q[2], id |-> q[3], src |-> q[4], dst |-> q[5]]

NextIpLink == OutputIpDrawn

SpecIpLink == InitIpLink /\ [][NextIpLink]_vars

\* (unicast & netmask) | ~netmask, byte by byte.
DerivedBroadcast(unicast, netmask) ==
    [k \in 1..4 |-> BitAndByte(unicast[k], netmask[k]) + (255 - netmask[k])]

\* C25: when ip_output has built a packet for a device that is up and carries a
\* capability: if the device has the needs-address-resolution flag and the
\* destination is the subnet broadcast address of the interface or
\* 255.255.255.255, the packet is transmitted with the first alen bytes of the
\* broadcast hardware address of the device as link destination; if it has the
\* flag and the destination is another address, the call fails with
\* address-resolution-unavailable and nothing is transmitted; if it does not
\* have the flag, the packet is transmitted without a link destination.
C25_LinkDestination ==
    (/\ OutputSelects
     /\ Len(last.out.packet) >= 20
     /\ is_up(devices[SelectedIface.device_index + 1])
     /\ devices[SelectedIface.device_index + 1].ops # "None")
        => LET dev == devices[SelectedIface.device_index + 1]
               iface == SelectedIface
           IN  IF (dev.flags \div 256) % 2 = 1
               THEN IF \/ last.dst = DerivedBroadcast(iface.unicast, iface.netmask)
                       \/ last.dst = <<255, 255, 255, 255>>
                    THEN /\ last.out.result.ok
                         /\ Len(last.out.transmits) = 1
                         /\ last.out.transmits[1].dev = dev.index
                         /\ last.out.transmits[1].data = last.out.packet
                         /\ last.out.transmits[1].dst = Some(SubSeq(dev.broadcast, 1, dev.alen))
                    ELSE /\ last.out.result = Err("AddressResolutionUnavailable")
                         /\ last.out.transmits = <<>>
               ELSE /\ last.out.result.ok
                    /\ Len(last.out.transmits) = 1
                    /\ last.out.transmits[1].data = last.out.packet
                    /\ last.out.transmits[1].dst = None

\* C25 happens: a packet for 10.0.0.255 left the broadcast device for the
\* hardware address ff:ff:ff:ff:ff:ff.
C25_Witness ==
    /\ OutputSelects
    /\ last.src = Addr_net
    /\ last.dst = Addr_net_bcast
    /\ last.out.result.ok
    /\ Len(last.out.transmits) = 1
    /\ last.out.transmits[1].dst = Some(HwBroadcast)

(***************************************************************************)
(* The identification counter: IpIdManager::next called again and again by *)
(* one caller, from the value IpIdManager::new gives it.                   *)
(***************************************************************************)
\* ctx.ip_id.next()
NextId ==
    /\ LET r == IpIdManager_next(next_id)
       IN  /\ next_id' = r.mem
           /\ last' = [op |-> "ip_id_next", value |-> r.value]
    /\ UNCHANGED <<devices, protocols, ip_ifaces, inp>>

InitIpId ==
    /\ devices = <<>>
    /\ protocols = <<>>
    /\ ip_ifaces = <<>>
    /\ next_id = IpIdManager_new
    /\ inp = NoInput
    /\ last = NoCall

NextIpId == NextId

SpecIpId == InitIpId /\ [][NextIpId]_vars

\* C26: the first call of IpIdManager::next returns 1, and every call returns
\* the result of the call before it plus 1 modulo 2^16: 0 after 65535.
C26_CounterWraps ==
    [][last'.op = "ip_id_next"
          => /\ last.op = "none" => last'.value = 1
             /\ last.op = "ip_id_next"
                   => last'.value = IF last.value = 65535 THEN 0 ELSE last.value + 1]_vars

\* C26 happens: the call after the one that returned 65535 returned 0.
C26_Witness ==
    /\ last.op = "ip_id_next"
    /\ last.value = 0
    /\ next_id = 1

(***************************************************************************)
(* The identification counter under concurrent callers: each thread makes  *)
(* one call of IpIdManager::next; a call is entered and then performs its  *)
(* fetch_add, and the steps of the threads interleave.                     *)
(***************************************************************************)
MaxThreads == 3

Threads == 1..MaxThreads

\* The values the counter holds when the threads start: fresh, and close to
\* the wrap-around.
IdStarts == {IpIdManager_new, 65534, 65535}

\* Thread t enters IpIdManager::next.
EnterNext ==
    /\ last.op = "ip_id_threads"
    /\ \E t \in Threads :
          /\ last.pc[t] = "idle"
          /\ last' = [last EXCEPT !.pc[t] = "entered", !.loaded[t] = next_id]
    /\ UNCHANGED <<devices, protocols, ip_ifaces, next_id, inp>>

\* Thread t performs self.next_id.fetch_add(1, Ordering::Relaxed) and returns.
FetchAdd ==
    /\ last.op = "ip_id_threads"
    /\ \E t \in Threads :
          /\ last.pc[t] = "entered"
          /\ LET r == AtomicU16_fetch_add(next_id, last.loaded[t], 1)
             IN  /\ next_id' = r.mem
                 /\ last' = [last EXCEPT !.pc[t] = "returned", !.got[t] = r.value]
    /\ UNCHANGED <<devices, protocols, ip_ifaces, inp>>

InitIpIdThreads ==
    /\ devices = <<>>
    /\ protocols = <<>>
    /\ ip_ifaces = <<>>
    /\ next_id \in IdStarts
    /\ inp = [kind |-> "ip_id", initial |-> next_id]
    /\ last = [op |-> "ip_id_threads", pc |-> [t \in Threads |-> "idle"],
               loaded |-> [t \in Threads |-> 0], got |-> [t \in Threads |-> 0]]

NextIpIdThreads ==
    \/ EnterNext
    \/ FetchAdd

SpecIpIdThreads == InitIpIdThreads /\ [][NextIpIdThreads]_vars

\* The threads whose call has returned.
Returned == {t \in Threads : last.pc[t] = "returned"}

\* C27: in every interleaving the values returned so far are pairwise
\* distinct, they are the n values that follow the initial one modulo 2^16, and
\* the counter stands at (initial + n) mod 2^16 for the n calls that have
\* returned: no increment is lost.
C27_NoLostIncrement ==
    /\ \A t, u \in Returned : t # u => last.got[t] # last.got[u]
    /\ {last.got[t] : t \in Returned}
           = {(inp.initial + k) % 65536 : k \in 0..(Cardinality(Returned) - 1)}
    /\ next_id = (inp.initial + Cardinality(Returned)) % 65536

\* C27 happens: all threads had entered before the first fetch_add, the calls
\* have all returned, and the counter has wrapped around.
C27_Witness ==
    /\ Returned = Threads
    /\ \A t \in Threads : last.loaded[t] = inp.initial
    /\ inp.initial = 65534
    /\ next_id = (65534 + MaxThreads) % 65536
    /\ \E t \in Threads : last.got[t] = 0

(***************************************************************************)
(* IpIface::is_destination_match as a function of the interface and the    *)
(* destination: the interface is built from a drawn unicast address and    *)
(* netmask, and one call is made.                                          *)
(***************************************************************************)
MatchUnicasts == {Addr_lo, Addr_net, <<10, 0, 0, 2>>}

MatchNetmasks == {<<255, 0, 0, 0>>, <<255, 255, 255, 0>>, <<255, 255, 255, 252>>}

MatchDsts ==
    MatchUnicasts \cup
    {Addr_lo_peer, Addr_lo_bcast, <<127, 0, 0, 255>>, <<127, 0, 0, 3>>,
     <<10, 0, 0, 3>>, Addr_net_bcast, <<10, 255, 255, 255>>, <<10, 0, 0, 0>>,
     IpAddr_BROADCAST, IpAddr_ANY, Addr_far}

\* iface.is_destination_match(dst)
MatchDrawn ==
    /\ inp.kind = "match"
    /\ last.op = "none"
    /\ last' = [op |-> "is_destination_match",
                result |-> is_destination_match(inp.iface, inp.dst)]
    /\ UNCHANGED <<devices, protocols, ip_ifaces, next_id, inp>>

InitMatch ==
    /\ devices = <<>>
    /\ protocols = <<>>
    /\ ip_ifaces = <<>>
    /\ next_id = IpIdManager_new
    /\ \E u \in MatchUnicasts, m \in MatchNetmasks, dst \in MatchDsts :
          inp = [kind |-> "match", iface |-> IpIface_of(u, m, 0), dst |-> dst]
    /\ last = NoCall

NextMatch == MatchDrawn

SpecMatch == InitMatch /\ [][NextMatch]_vars

\* C28: is_destination_match answers true exactly when the destination is the
\* interface's unicast address, the broadcast address derived from its
\* unicast address and netmask, or 255.255.255.255; any other address, those
\* of the interface's own subnet included, gets false.
C28_MatchIffOwnAddress ==
    last.op = "is_destination_match"
        => (last.result
               <=> \/ inp.dst = inp.iface.unicast
                   \/ inp.dst = DerivedBroadcast(inp.iface.unicast, inp.iface.netmask)
                   \/ inp.dst = <<255, 255, 255, 255>>)

\* C28 happens: another address of the interface's subnet was refused.
C28_Witness ==
    /\ last.op = "is_destination_match"
    /\ ~last.result
    /\ inp.iface.unicast = <<10, 0, 0, 1>>
    /\ inp.iface.netmask = <<255, 255, 255, 0>>
    /\ inp.dst = <<10, 0, 0, 3>>

(***************************************************************************)
(* The interfaces the devices and the registry hold, checked under SpecIp: *)
(* interfaces are registered, devices opened and closed, datagrams sent.   *)
(***************************************************************************)
\* The interfaces of the list `before` are those of `after`, place by place.
IfacesKept(before, after) ==
    /\ Len(after) >= Len(before)
    /\ \A k \in 1..Len(before) : after[k] = before[k]

\* C29: every interface held by a device or by the registry has the
\* broadcast address (unicast & netmask) | ~netmask, and no step changes an
\* interface that is already held: its unicast address, netmask and broadcast
\* address stay what they were at construction.
C29_BroadcastDerivedAndKept ==
    /\ [](\A i \in 1..Len(devices) : \A k \in 1..Len(devices[i].ifaces) :
              LET iface == devices[i].ifaces[k].ip
              IN  iface.broadcast = DerivedBroadcast(iface.unicast, iface.netmask))
    /\ [](\A k \in 1..Len(ip_ifaces) :
              ip_ifaces[k].broadcast
                  = DerivedBroadcast(ip_ifaces[k].unicast, ip_ifaces[k].netmask))
    /\ [][/\ Len(devices') = Len(devices)
          /\ \A i \in 1..Len(devices) : IfacesKept(devices[i].ifaces, devices'[i].ifaces)
          /\ IfacesKept(ip_ifaces, ip_ifaces')]_vars

\* C29 happens: both devices and the registry hold interfaces, with netmasks
\* of different lengths, and a datagram has been sent since.
C29_Witness ==
    /\ Len(ip_ifaces) >= 2
    /\ \A i \in 1..Len(devices) : devices[i].ifaces # <<>>
    /\ \E k \in 1..Len(ip_ifaces) : ip_ifaces[k].broadcast = <<10, 0, 0, 255>>
    /\ \E k \in 1..Len(ip_ifaces) : ip_ifaces[k].broadcast = <<127, 255, 255, 255>>
    /\ last.op = "ip_output"
    /\ last.out.result.ok

(***************************************************************************)
(* What icmp::input does with the message ip_input hands it, checked under *)
(* SpecLoopback.                                                           *)
(***************************************************************************)
\* The datagram passes ip_input's gates and carries protocol number 1,
\* whatever its message is.
CarriesIcmp(data) ==
    /\ PassesFirstFiveGates(data)
    /\ (data[1] % 16) * 4 >= 20
    /\ ~MoreFragments(data)
    /\ FragmentOffset(data) = 0
    /\ data[10] = 1

\* C30: a message shorter than 8 bytes, or one whose Internet checksum over
\* the whole message is not zero, is dropped without being decoded, and any
\* other message is decoded; in each case ip_input and Device::output return
\* Ok, and nothing is sent in reply: icmp::input makes no call of ip_output
\* or Device::output, and the datagram that was sent is the only transmit.
C30_IcmpDropsOrDecodes ==
    (/\ last.op = "output"
     /\ last.type_ = PROTOCOL_TYPE_IP
     /\ OutputTarget.ops = "Loopback"
     /\ is_up(OutputTarget)
     /\ HandlersFor(protocols, ProtocolType_Ip) # {}
     /\ CarriesIcmp(last.data)
     /\ \E k \in 1..Len(OutputTarget.ifaces) :
           OutputTarget.ifaces[k].ip.unicast = SubSeq(last.data, 17, 20))
        => /\ last.out.result.ok
           /\ Len(last.out.transmits) = 1
           /\ Len(last.out.dispatches) = 1
           /\ Len(last.out.dispatches[1].invoked) = 1
           /\ LET ran == last.out.dispatches[1].invoked[1].outcome
                  message == MessageOf(last.data)
              IN  /\ ran.result.ok
                  /\ Len(ran.icmp) = 1
                  /\ ran.icmp[1].data = message
                  /\ ran.icmp[1].replies = <<>>
                  /\ IF Len(message) < 8 \/ cksum16(message, 0) # 0
                     THEN ran.icmp[1].outcome # "Decoded" /\ ran.icmp[1].type = "-"
                     ELSE ran.icmp[1].outcome = "Decoded"

\* C30 happens: an echo request of full length with a wrong checksum reached
\* icmp::input and was dropped.
C30_Witness ==
    /\ last.op = "output"
    /\ last.out.result.ok
    /\ Len(last.out.dispatches) = 1
    /\ Len(last.out.dispatches[1].invoked) = 1
    /\ CarriesIcmp(last.data)
    /\ LET ran == last.out.dispatches[1].invoked[1].outcome
       IN  /\ Len(ran.icmp) = 1
           /\ Len(ran.icmp[1].data) >= 8
           /\ ran.icmp[1].data[1] = 8
           /\ cksum16(ran.icmp[1].data, 0) # 0
           /\ ran.icmp[1].outcome = "ChecksumError"

\* The short message is met too: four bytes with a valid checksum were
\* dropped as too short.
C30_ShortWitness ==
    /\ last.op = "output"
    /\ Len(last.out.dispatches) = 1
    /\ Len(last.out.dispatches[1].invoked) = 1
    /\ LET ran == last.out.dispatches[1].invoked[1].outcome
       IN  /\ Len(ran.icmp) = 1
           /\ Len(ran.icmp[1].data) = 4
           /\ cksum16(ran.icmp[1].data, 0) = 0
           /\ ran.icmp[1].outcome = "TooShort"

(***************************************************************************)
(* IcmpHdr::from_bytes, type_enum, echo_id and echo_seq on a drawn buffer. *)
(***************************************************************************)
\* The bytes behind the type byte: two settings of the code, the checksum,
\* the identifier and the sequence number, with unequal bytes in each field.
IcmpRests == {<<0, 247, 126, 0, 128, 0, 1>>, <<3, 18, 52, 171, 205, 255, 2>>}

IcmpTails == {<<>>, <<49>>}

IcmpBuffers ==
    {<<t>> \o r \o tail : t \in 0..255, r \in IcmpRests, tail \in IcmpTails}
        \cup {SubSeq(<<8>> \o r, 1, n) : r \in IcmpRests, n \in 0..7}

\* IcmpHdr::from_bytes(data), then type_enum, echo_id and echo_seq on the
\* header it gave.
DecodeIcmpHdr ==
    /\ inp.kind = "icmp_hdr"
    /\ last.op = "none"
    /\ LET hdr == IcmpHdr_from_bytes(inp.data)
       IN  last' = IF hdr.ok
                   THEN [op |-> "IcmpHdr_from_bytes", hdr |-> hdr,
                         type_enum |-> IcmpHdr_type_enum(hdr.v),
                         echo_id |-> IcmpHdr_echo_id(hdr.v),
                         echo_seq |-> IcmpHdr_echo_seq(hdr.v)]
                   ELSE [op |-> "IcmpHdr_from_bytes", hdr |-> hdr]
    /\ UNCHANGED <<devices, protocols, ip_ifaces, next_id, inp>>

InitIcmpHdr ==
    /\ devices = <<>>
    /\ protocols = <<>>
    /\ ip_ifaces = <<>>
    /\ next_id = IpIdManager_new
    /\ \E data \in IcmpBuffers : inp = [kind |-> "icmp_hdr", data |-> data]
    /\ last = NoCall

NextIcmpHdr == DecodeIcmpHdr

SpecIcmpHdr == InitIcmpHdr /\ [][NextIcmpHdr]_vars

\* The values of the type byte that name a type.
NamedIcmpTypes == {0, 3, 4, 5, 8, 11, 12, 13, 14, 15, 16}

\* C31: IcmpHdr::from_bytes gives None exactly for buffers shorter than 8
\* bytes; otherwise the type is byte 0, the code byte 1, the checksum bytes
\* 2-3, the echo identifier bytes 4-5 and the echo sequence number bytes 6-7,
\* each most significant byte first, and the type has a name exactly for the
\* values 0, 3, 4, 5, 8, 11, 12, 13, 14, 15, 16.
C31_IcmpHeaderDecoded ==
    last.op = "IcmpHdr_from_bytes"
        => /\ ~last.hdr.ok <=> Len(inp.data) < 8
           /\ last.hdr.ok
                 => /\ last.hdr.v.type_ = inp.data[1]
                    /\ last.hdr.v.code = inp.data[2]
                    /\ last.hdr.v.sum = inp.data[3] * 256 + inp.data[4]
                    /\ last.echo_id = inp.data[5] * 256 + inp.data[6]
                    /\ last.echo_seq = inp.data[7] * 256 + inp.data[8]
                    /\ last.type_enum.ok <=> inp.data[1] \in NamedIcmpTypes
                    /\ last.type_enum.ok
                          => icmp_type_ntoa(inp.data[1]) # "Unknown"
                    /\ ~last.type_enum.ok
                          => icmp_type_ntoa(inp.data[1]) = "Unknown"

\* C31 happens: a header with an unnamed type and unequal bytes in every
\* two-byte field was decoded.
C31_Witness ==
    /\ last.op = "IcmpHdr_from_bytes"
    /\ last.hdr.ok
    /\ inp.data[1] = 17
    /\ ~last.type_enum.ok
    /\ last.hdr.v.sum = 18 * 256 + 52
    /\ last.echo_id = 171 * 256 + 205
    /\ last.echo_seq = 255 * 256 + 2

(***************************************************************************)
(* The running phase next to the setup operations: interfaces are          *)
(* attached, devices opened and closed, and in between datagrams are sent  *)
(* with ip_output and Device::output and buffers handed to dispatch, which *)
(* reach ip_input and icmp::input through the handler table.               *)
(***************************************************************************)
InitFrame == InitIp

NextFrame ==
    \/ RegisterIface
    \/ OpenDevice
    \/ CloseDevice
    \/ OutputIp
    \/ OutputDevice
    \/ DispatchProtocol

SpecFrame == InitFrame /\ [][NextFrame]_vars

\* The operations of the running phase and those of the setup phase, by the
\* name the call is recorded under.
RunningOps == {"dispatch", "output", "ip_output"}

SetupOps == {"register", "loopback_init", "open", "close", "run", "shutdown",
             "protocol_init", "protocol_register", "Device_register_iface",
             "ip_register_iface"}

\* C32: a call of dispatch, Device::output or ip_output, with the ip_input
\* and icmp::input calls it leads to, leaves the devices (their number,
\* indexes, flags, MTU and interfaces), the protocol table and the interface
\* registry as they were, whether it succeeds or fails; a step that changes
\* one of them is a register, an open or close, or an interface attachment.
C32_RunningPhaseFrame ==
    [][/\ last'.op \in RunningOps
             => /\ devices' = devices
                /\ protocols' = protocols
                /\ ip_ifaces' = ip_ifaces
       /\ (devices' # devices \/ protocols' # protocols \/ ip_ifaces' # ip_ifaces)
             => last'.op \in SetupOps]_vars

\* C32 happens: with interfaces attached and the loopback device up, an
\* ip_output went through Device::output, dispatch and ip_input to
\* icmp::input, and the second device is still down.
C32_Witness ==
    /\ last.op = "ip_output"
    /\ last.out.result.ok
    /\ Len(last.out.transmits) = 1
    /\ Len(last.out.dispatches) = 1
    /\ Len(last.out.dispatches[1].invoked) = 1
    /\ Len(last.out.dispatches[1].invoked[1].outcome.icmp) = 1
    /\ Len(ip_ifaces) = 2
    /\ is_up(devices[1])
    /\ ~is_up(devices[2])

\* The failing case is met too: an ip_output was refused and nothing changed.
C32_FailureWitness ==
    /\ last.op = "ip_output"
    /\ ~last.out.result.ok
    /\ Len(ip_ifaces) = 2
    /\ is_up(devices[1])

(***************************************************************************)
(* The order of the gates of ip_input, checked under SpecIpInput.          *)
(***************************************************************************)
\* The gates a buffer fails, each read from the bytes on its own; a gate
\* that cannot be evaluated on the buffer (the header does not fit) counts
\* as not failed, the gate before it has failed then.
FailsLength(data) == Len(data) < 20

FailsVersion(data) == Len(data) >= 1 /\ data[1] \div 16 # 4

FailsHeaderLength(data) == Len(data) >= 1 /\ Len(data) < (data[1] % 16) * 4

FailsChecksum(data) ==
    /\ Len(data) >= 1
    /\ Len(data) >= (data[1] % 16) * 4
    /\ cksum16(SubSeq(data, 1, (data[1] % 16) * 4), 0) # 0

FailsTotalLength(data) == Len(data) >= 4 /\ Len(data) < data[3] * 256 + data[4]

FailsFragmentation(data) ==
    Len(data) >= 8 /\ (MoreFragments(data) \/ FragmentOffset(data) # 0)

\* The number of gates the buffer fails.
FailedGates(data) ==
    Cardinality({g \in {"Length", "Version", "HeaderLength", "Checksum", "TotalLength",
                        "Fragmentation"} :
                    CASE g = "Length" -> FailsLength(data)
                      [] g = "Version" -> FailsVersion(data)
                      [] g = "HeaderLength" -> FailsHeaderLength(data)
                      [] g = "Checksum" -> FailsChecksum(data)
                      [] g = "TotalLength" -> FailsTotalLength(data)
                      [] OTHER -> FailsFragmentation(data)})

\* C33: ip_input reports the earliest failing gate in the order length,
\* version, header length, header checksum, total length, fragmentation,
\* whatever later gates fail as well; the interface match and the dispatch
\* happen only for a packet that passes all six.
C33_GatesInOrder ==
    last.op = "ip_input"
        => LET data == last.data
               out == last.out
           IN  /\ IF FailsLength(data) THEN out.result = Err("TooShort")
                  ELSE IF FailsVersion(data) THEN out.result = Err("UnsupportedVersion")
                  ELSE IF FailsHeaderLength(data)
                  THEN out.result = Err("TooShortForHeaderLength")
                  ELSE IF FailsChecksum(data) THEN out.result = Err("ChecksumError")
                  ELSE IF FailsTotalLength(data)
                  THEN out.result = Err("TooShortForTotalLength")
                  ELSE IF FailsFragmentation(data)
                  THEN out.result = Err("FragmentationUnsupported")
                  ELSE out.gate \in {"NoMatch", "Dispatched", "PayloadSlice"}
               /\ FailedGates(data) > 0
                     => /\ ~out.matched
                        /\ out.consumer = "none"
                        /\ out.icmp = <<>>
                        /\ out.gate \notin {"NoMatch", "Dispatched", "PayloadSlice"}

\* C33 happens: a packet of version 6 with a wrong header checksum, a total
\* length beyond the buffer and the more-fragments flag was rejected for its
\* version.
C33_Witness ==
    /\ last.op = "ip_input"
    /\ ~FailsLength(last.data)
    /\ FailsVersion(last.data)
    /\ FailsChecksum(last.data)
    /\ FailsTotalLength(last.data)
    /\ FailsFragmentation(last.data)
    /\ FailedGates(last.data) = 4
    /\ last.out.result = Err("UnsupportedVersion")

(***************************************************************************)
(* Completion of ip_input, checked under SpecIpInput.                      *)
(***************************************************************************)
\* C34: for every buffer and every device ip_input completes with Ok or an
\* error value; it never aborts on the slice of the header bytes or on the
\* slice of the payload from header length to total length, also when the
\* declared total length is below the declared header length.
C34_InputNeverAborts ==
    last.op = "ip_input"
        => /\ last.out.result # Err("Panic")
           /\ last.out.gate # "PayloadSlice"

(***************************************************************************)
(* The order of the checks of ip_output: one call on the loopback device   *)
(* and a device that needs address resolution, each up or down, the second *)
(* with a small or a large MTU, so that several checks can fail at once.   *)
(***************************************************************************)
OrderMtus == {SmallMtu, 1500}

OrderConfig(mtu, up0, up1) ==
    LET registered == DeviceManager_register(loopback_init(<<>>).devices,
                                             [ArpDevice(6) EXCEPT !.mtu = mtu]).devices
        dev0 == IF up0 THEN Device_open(registered[1]).dev ELSE registered[1]
        dev1 == IF up1 THEN Device_open(registered[2]).dev ELSE registered[2]
        lo == IpIface_of(Addr_lo, <<255, 0, 0, 0>>, 0)
        net == IpIface_of(Addr_net, <<255, 255, 255, 0>>, 1)
    IN  [devices |-> <<[dev0 EXCEPT !.ifaces = <<NetIface_Ip(lo)>>],
                       [dev1 EXCEPT !.ifaces = <<NetIface_Ip(net)>>]>>,
         ip_ifaces |-> <<lo, net>>]

OrderDsts == {Addr_lo, <<10, 0, 0, 2>>, Addr_net_bcast, Addr_far, IpAddr_BROADCAST}

InitIpOrder ==
    /\ protocols = ProtocolManager_register(<<>>, ProtocolType_Ip, "ip_input_handler").v
    /\ next_id = 1
    /\ last = NoCall
    /\ \E mtu \in OrderMtus, up0 \in BOOLEAN, up1 \in BOOLEAN :
          /\ devices = OrderConfig(mtu, up0, up1).devices
          /\ ip_ifaces = OrderConfig(mtu, up0, up1).ip_ifaces
    /\ \E q \in {EchoMessage, LongPayload} \X OutputSrcs \X OrderDsts :
          inp = [kind |-> "ip_output", protocol |-> IpProtocol_from_u8(1),
                 payload |-> q[1], id |-> 4660, src |-> q[2], dst |-> q[3]]

NextIpOrder == OutputIpDrawn

SpecIpOrder == InitIpOrder /\ [][NextIpOrder]_vars

\* The checks a call of ip_output fails, each read from the arguments and the
\* state on its own.  Those behind the interface lookup are about the first
\* registry entry with the source address and its device.
FailsRoute == last.src = <<0, 0, 0, 0>>

FailsLookup == EntriesFor(ip_ifaces, last.src) = {}

FailsReach == ~FailsLookup /\ ~Reachable(SelectedIface, last.dst)

FailsMtu ==
    /\ ~FailsLookup
    /\ devices[SelectedIface.device_index + 1].mtu < 20 + Len(last.payload)

FailsLink ==
    /\ ~FailsLookup
    /\ (devices[SelectedIface.device_index + 1].flags \div 256) % 2 = 1
    /\ last.dst # DerivedBroadcast(SelectedIface.unicast, SelectedIface.netmask)
    /\ last.dst # <<255, 255, 255, 255>>

FailsUp ==
    /\ ~FailsLookup
    /\ devices[SelectedIface.device_index + 1].flags % 2 = 0

\* C35: ip_output reports the first failing check in the order no route,
\* interface not found, unreachable, packet too large, link destination,
\* device not up, whatever later checks fail as well, and succeeds when none
\* fails; a call that returns an error has invoked no transmit capability.
C35_OutputChecksInOrder ==
    last.op = "ip_output"
        => /\ last.out.result =
                 (IF FailsRoute THEN Err("NoRoute")
                  ELSE IF FailsLookup THEN Err("InterfaceNotFound")
                  ELSE IF FailsReach THEN Err("Unreachable")
                  ELSE IF FailsMtu THEN Err("PacketTooLarge")
                  ELSE IF FailsLink THEN Err("AddressResolutionUnavailable")
                  ELSE IF FailsUp THEN Err("NotUp")
                  ELSE Ok(20 + Len(last.payload)))
           /\ ~last.out.result.ok => last.out.transmits = <<>>
           /\ last.out.result.ok
                 => Len(last.out.transmits) = 1

\* C35 happens: the destination was outside the subnet, the payload beyond
\* the MTU, the link destination unresolvable and the device down, and the
\* call was refused as unreachable.
C35_Witness ==
    /\ last.op = "ip_output"
    /\ ~FailsRoute
    /\ FailsReach
    /\ FailsMtu
    /\ FailsLink
    /\ FailsUp
    /\ last.out.result = Err("Unreachable")
    /\ last.out.transmits = <<>>

(***************************************************************************)
(* The lengths of an accepted packet, checked under SpecIpInput.           *)
(***************************************************************************)
\* C36: whenever ip_input reaches the interface match or hands a payload to a
\* protocol consumer, 20 <= hlen <= total <= buffer length holds for the
\* header length hlen (4 x the low nibble of the first byte) and the declared
\* total length; a header length below 20 is never accepted.
C36_AcceptedLengthsOrdered ==
    (/\ last.op = "ip_input"
     /\ last.out.gate \in {"NoMatch", "Dispatched", "PayloadSlice"})
        => LET hlen == (last.data[1] % 16) * 4
               total == last.data[3] * 256 + last.data[4]
           IN  /\ 20 <= hlen
               /\ hlen <= total
               /\ total <= Len(last.data)

(***************************************************************************)
(* ip::register_iface as one step, checked under SpecIface.                *)
(***************************************************************************)
\* C37: ip::register_iface is all-or-nothing.  A call that returns an error
\* leaves the interface list of the device and the interface registry as
\* they were; after a call that returns Ok the list of the device holds the
\* new interface and select(unicast) gives an entry with the device's index.
C37_RegisterIfaceAllOrNothing ==
    [][last'.op = "ip_register_iface"
          => IF ~last'.result.ok
             THEN /\ devices'[last'.dev + 1].ifaces = devices[last'.dev + 1].ifaces
                  /\ ip_ifaces' = ip_ifaces
             ELSE /\ Len(devices'[last'.dev + 1].ifaces)
                         = Len(devices[last'.dev + 1].ifaces) + 1
                  /\ \E k \in 1..Len(ip_ifaces') :
                        /\ to_string(ip_ifaces'[k].unicast) = last'.unicast
                        /\ ip_ifaces'[k].device_index = last'.dev
                        /\ \A j \in 1..(k - 1) :
                              ip_ifaces'[j].unicast # ip_ifaces'[k].unicast]_vars

(***************************************************************************)
(* The protocol table by numeric type, checked under SpecProtocol.         *)
(***************************************************************************)
\* C38: for every 16-bit type value at most one registered handler
\* corresponds to it, and dispatch of the value invokes exactly that handler,
\* also when a registration was made as Unknown(v) with v one of 0x0800,
\* 0x0806, 0x86dd: no registered handler is out of reach of dispatch.
C38_OneHandlerPerValue ==
    /\ \A v \in DispatchTypes : Cardinality(HandlersForValue(protocols, v)) <= 1
    /\ last.op = "dispatch"
          => /\ Len(last.invoked) = Cardinality(HandlersForValue(protocols, last.type_))
             /\ \A k \in HandlersForValue(protocols, last.type_) :
                   /\ Len(last.invoked) = 1
                   /\ last.invoked[1].handler = protocols[k].handler

(***************************************************************************)
(* When run and shutdown succeed, checked under Spec.  The capabilities of *)
(* the source, those of the loopback device, never fail.                   *)
(***************************************************************************)
\* C39: DeviceManager::run succeeds exactly when every registered device was
\* down before the call, and then every device is up afterwards;
\* DeviceManager::shutdown succeeds exactly when every registered device was
\* up before the call, and then every device is down afterwards.
C39_RunNeedsAllDown ==
    [][/\ last'.op = "run"
             => /\ last'.result.ok <=> \A k \in 1..Len(devices) : devices[k].flags % 2 = 0
                /\ last'.result.ok
                      => /\ Len(devices') = Len(devices)
                         /\ \A k \in 1..Len(devices') : devices'[k].flags % 2 = 1
       /\ last'.op = "shutdown"
             => /\ last'.result.ok <=> \A k \in 1..Len(devices) : devices[k].flags % 2 = 1
                /\ last'.result.ok
                      => /\ Len(devices') = Len(devices)
                         /\ \A k \in 1..Len(devices') : devices'[k].flags % 2 = 0]_vars

\* C39 happens: run was refused because the second of two devices was up
\* while the first was down; the first has been opened by the refused call.
C39_Witness ==
    /\ last.op = "run"
    /\ ~last.result.ok
    /\ Len(devices) = 2
    /\ devices[1].ops # devices[2].ops
    /\ is_up(devices[1])
    /\ is_up(devices[2])

\* A successful run and a successful shutdown of two devices are met too.
C39_SuccessWitness ==
    /\ last.op = "shutdown"
    /\ last.result.ok
    /\ Len(devices) = 2
    /\ ~is_up(devices[1])
    /\ ~is_up(devices[2])

(***************************************************************************)
(* main.rs: the application.  The device manager, the protocol manager and *)
(* the protocol contexts are Rc<RefCell<..>>; `last` holds the position of *)
(* the application, the borrow state of the three cells and the number of  *)
(* packets sent, `inp` the terminate flag the signal handler sets.         *)
(* A borrow that the cell refuses is a panic.                              *)
(***************************************************************************)
MaxSends == 6

\* RefCell::new
RefCell_new == [readers |-> 0, writer |-> FALSE]

\* RefCell::borrow: refused while an exclusive borrow is outstanding.
RefCell_borrow(cell) ==
    IF cell.writer THEN Err("BorrowError")
    ELSE Ok([cell EXCEPT !.readers = cell.readers + 1])

\* RefCell::borrow_mut: refused while any borrow is outstanding.
RefCell_borrow_mut(cell) ==
    IF cell.writer \/ cell.readers > 0 THEN Err("BorrowMutError")
    ELSE Ok([cell EXCEPT !.writer = TRUE])

\* Drop of a Ref and of a RefMut.
RefCell_drop_ref(cell) == [cell EXCEPT !.readers = cell.readers - 1]

RefCell_drop_mut(cell) == [cell EXCEPT !.writer = FALSE]

\* A plausible slip: send_test_packet takes the device manager exclusively.
App_send_borrow_exclusive(cell) == RefCell_borrow_mut(cell)

\* send_test_packet: let devices = self.devices.borrow();
App_send_borrow(cell) == RefCell_borrow(cell)

\* The exclusive borrows of the application: the position before the
\* statement, the cell it borrows and the position inside the statement.
\* protocols.borrow_mut().init(); loopback::init(&mut devices.borrow_mut(), ..);
\* devices.borrow_mut().get_mut(index); devices.borrow_mut().run();
\* self.devices.borrow_mut().shutdown()
AppExclusive ==
    {<<"new", "protocols", "protocol_init">>,
     <<"setup_loopback", "devices", "loopback_init">>,
     <<"attach", "devices", "register_iface">>,
     <<"start", "devices", "run">>,
     <<"drop", "devices", "shutdown">>}

\* The shared borrows of the output callback, in the order it takes them.
AppCallbackBorrows ==
    {<<"callback", "devices", "callback_protocols">>,
     <<"callback_protocols", "protocols", "callback_ctx">>,
     <<"callback_ctx", "ctx", "dispatch">>}

AppPanic == [last EXCEPT !.pc = "panicked"]

\* A statement takes its exclusive borrow.
AppBorrowMut ==
    /\ last.op = "app"
    /\ \E e \in AppExclusive :
          /\ last.pc = e[1]
          /\ LET b == RefCell_borrow_mut(last.cells[e[2]])
             IN  last' = IF b.ok THEN [last EXCEPT !.pc = e[3], !.cells[e[2]] = b.v]
                         ELSE AppPanic
    /\ UNCHANGED <<devices, protocols, ip_ifaces, next_id, inp>>

\* App::new: protocols.borrow_mut().init()
AppProtocolInit ==
    /\ last.op = "app" /\ last.pc = "protocol_init"
    /\ LET r == ProtocolManager_register(protocols, ProtocolType_Ip, "ip_input_handler")
       IN  /\ protocols' = (IF r.ok THEN r.v ELSE protocols)
           /\ last' = [last EXCEPT !.pc = IF r.ok THEN "setup_loopback" ELSE "failed",
                                   !.cells.protocols = RefCell_drop_mut(last.cells.protocols)]
    /\ UNCHANGED <<devices, ip_ifaces, next_id, inp>>

\* setup_loopback: device::loopback::init(&mut devices.borrow_mut(), callback)
AppLoopbackInit ==
    /\ last.op = "app" /\ last.pc = "loopback_init"
    /\ LET reg == loopback_init(devices)
       IN  /\ devices' = reg.devices
           /\ last' = [last EXCEPT !.pc = "attach", !.loopback_index = reg.result.v,
                                   !.cells.devices = RefCell_drop_mut(last.cells.devices)]
    /\ UNCHANGED <<protocols, ip_ifaces, next_id, inp>>

\* setup_loopback: dev.register_iface(NetIface::Ip(ip_iface)) on
\* devices.borrow_mut().get_mut(index)
AppRegisterIface ==
    /\ last.op = "app" /\ last.pc = "register_iface"
    /\ LET made == IpIface_new(Text_lo, to_string(<<255, 0, 0, 0>>), last.loopback_index)
           r == Device_register_iface(devices[last.loopback_index + 1], NetIface_Ip(made.v))
       IN  /\ devices' = [devices EXCEPT ![last.loopback_index + 1] = r.dev]
           /\ last' = [last EXCEPT !.pc = IF r.result.ok THEN "start" ELSE "failed",
                                   !.cells.devices = RefCell_drop_mut(last.cells.devices)]
    /\ UNCHANGED <<protocols, ip_ifaces, next_id, inp>>

\* App::new: devices.borrow_mut().run()
AppRun ==
    /\ last.op = "app" /\ last.pc = "run"
    /\ LET r == DeviceManager_run(devices)
       IN  /\ devices' = r.devices
           /\ last' = [last EXCEPT !.pc = IF r.result.ok THEN "loop" ELSE "failed",
                                   !.cells.devices = RefCell_drop_mut(last.cells.devices)]
    /\ UNCHANGED <<protocols, ip_ifaces, next_id, inp>>

\* The signal handler: terminate.store(true)
AppSignal ==
    /\ inp.kind = "app" /\ ~inp.terminate
    /\ inp' = [inp EXCEPT !.terminate = TRUE]
    /\ UNCHANGED <<devices, protocols, ip_ifaces, next_id, last>>

\* App::run: the loop is left when the flag is set; the App is dropped then.
AppLoopExit ==
    /\ last.op = "app" /\ last.pc = "loop"
    /\ inp.terminate
    /\ last' = [last EXCEPT !.pc = "drop"]
    /\ UNCHANGED <<devices, protocols, ip_ifaces, next_id, inp>>

\* send_test_packet: let devices = self.devices.borrow()
AppSendBorrow ==
    /\ last.op = "app" /\ last.pc = "loop"
    /\ ~inp.terminate
    /\ last.sent < MaxSends
    /\ LET b == App_send_borrow(last.cells.devices)
       IN  last' = IF b.ok THEN [last EXCEPT !.pc = "output", !.cells.devices = b.v]
                   ELSE AppPanic
    /\ UNCHANGED <<devices, protocols, ip_ifaces, next_id, inp>>

\* send_test_packet: dev.output(PROTOCOL_TYPE_IP, TEST_ICMP_PACKET, None), up
\* to the call of the output callback by LoopbackOps::transmit.
AppOutput ==
    /\ last.op = "app" /\ last.pc = "output"
    /\ LET out == Device_output(devices, protocols, devices[last.loopback_index + 1],
                                PROTOCOL_TYPE_IP, TEST_ICMP_PACKET, None)
       IN  last' = [last EXCEPT !.pc = IF out.transmits # <<>> THEN "callback"
                                       ELSE "output_return",
                                !.result = out.result, !.dispatched = 0]
    /\ UNCHANGED <<devices, protocols, ip_ifaces, next_id, inp>>

\* The output callback: devices_for_cb.borrow(), protocols_for_cb.borrow(),
\* ctx_for_cb.borrow()
AppCallbackBorrow ==
    /\ last.op = "app"
    /\ \E e \in AppCallbackBorrows :
          /\ last.pc = e[1]
          /\ LET b == RefCell_borrow(last.cells[e[2]])
             IN  last' = IF b.ok THEN [last EXCEPT !.pc = e[3], !.cells[e[2]] = b.v]
                         ELSE AppPanic
    /\ UNCHANGED <<devices, protocols, ip_ifaces, next_id, inp>>

\* The output callback: protocols.dispatch(type_, data, dev, &ctx); its three
\* borrows end when it returns.
AppCallbackDispatch ==
    /\ last.op = "app" /\ last.pc = "dispatch"
    /\ LET ran == output_callback(devices, protocols, PROTOCOL_TYPE_IP, TEST_ICMP_PACKET,
                                  last.loopback_index)
       IN  last' = [last EXCEPT !.pc = "output_return",
                                !.dispatched = Len(ran),
                                !.cells.ctx = RefCell_drop_ref(last.cells.ctx),
                                !.cells.protocols = RefCell_drop_ref(last.cells.protocols),
                                !.cells.devices = RefCell_drop_ref(last.cells.devices)]
    /\ UNCHANGED <<devices, protocols, ip_ifaces, next_id, inp>>

\* send_test_packet returns: its borrow of the device manager ends.
AppSendReturn ==
    /\ last.op = "app" /\ last.pc = "output_return"
    /\ last' = [last EXCEPT !.pc = IF last.result.ok THEN "loop" ELSE "drop",
                            !.sent = last.sent + 1,
                            !.cells.devices = RefCell_drop_ref(last.cells.devices)]
    /\ UNCHANGED <<devices, protocols, ip_ifaces, next_id, inp>>

\* Drop for App: self.devices.borrow_mut().shutdown()
AppShutdown ==
    /\ last.op = "app" /\ last.pc = "shutdown"
    /\ LET r == DeviceManager_shutdown(devices)
       IN  /\ devices' = r.devices
           /\ last' = [last EXCEPT !.pc = "done",
                                   !.cells.devices = RefCell_drop_mut(last.cells.devices)]
    /\ UNCHANGED <<protocols, ip_ifaces, next_id, inp>>

InitApp ==
    /\ devices = <<>>
    /\ protocols = <<>>
    /\ ip_ifaces = <<>>
    /\ next_id = IpIdManager_new
    /\ inp = [kind |-> "app", terminate |-> FALSE]
    /\ last = [op |-> "app", pc |-> "new",
               cells |-> [devices |-> RefCell_new, protocols |-> RefCell_new,
                          ctx |-> RefCell_new],
               loopback_index |-> 0, sent |-> 0, dispatched |-> 0, result |-> Ok(<<>>)]

NextApp ==
    \/ AppBorrowMut
    \/ AppProtocolInit
    \/ AppLoopbackInit
    \/ AppRegisterIface
    \/ AppRun
    \/ AppSignal
    \/ AppLoopExit
    \/ AppSendBorrow
    \/ AppOutput
    \/ AppCallbackBorrow
    \/ AppCallbackDispatch
    \/ AppSendReturn
    \/ AppShutdown

SpecApp == InitApp /\ [][NextApp]_vars

\* The positions inside the output callback, and those inside a statement
\* that holds an exclusive borrow.
CallbackPcs == {"callback", "callback_protocols", "callback_ctx", "dispatch"}

ExclusivePcs == {"protocol_init", "loopback_init", "register_iface", "run", "shutdown"}

\* C40: while the output callback runs, no exclusive borrow of the device
\* manager, the protocol manager or the protocol contexts is outstanding, so
\* none of its three shared borrows is refused; an exclusive borrow is
\* outstanding only inside the statements of setup, run and shutdown, where
\* no output is in progress (no shared borrow is held).
C40_CallbackBorrowsNeverConflict ==
    last.op = "app"
        => /\ last.pc # "panicked"
           /\ last.pc \in CallbackPcs
                 => /\ \A c \in {"devices", "protocols", "ctx"} : ~last.cells[c].writer
                    /\ last.cells.devices.readers >= 1
           /\ \A c \in {"devices", "protocols", "ctx"} :
                 last.cells[c].writer
                    => /\ last.pc \in ExclusivePcs
                       /\ \A d \in {"devices", "protocols", "ctx"} :
                             last.cells[d].readers = 0

\* C40 happens: the callback holds its three shared borrows next to the one
\* of send_test_packet, about to dispatch, after an earlier packet went
\* through.
C40_Witness ==
    /\ last.op = "app"
    /\ last.pc = "dispatch"
    /\ last.cells.devices.readers = 2
    /\ last.cells.protocols.readers = 1
    /\ last.cells.ctx.readers = 1
    /\ last.sent >= 1
    /\ is_up(devices[last.loopback_index + 1])
    /\ protocols # <<>>

====
